---- MODULE Spec2Model ----
(***************************************************************************)
(* A model of the AutoJobber matching engine (ai-service/src).             *)
(*                                                                         *)
(* Representation of Python values:                                        *)
(*   str    a sequence of one-character strings, "" being << >>            *)
(*   None   the value None below, distinct from every str                  *)
(*   float  an exact rational [n |-> numerator, d |-> denominator], kept   *)
(*          in lowest terms with d > 0                                     *)
(*   dict   a function whose domain is the set of keys present             *)
(*   list   a sequence                                                     *)
(* round(x, 2) is kept as the integer number of hundredths.                *)
(***************************************************************************)
EXTENDS Integers, Sequences, FiniteSets, TLC

----------------------------------------------------------------------------
(* Bounds of the model. *)

\* Longest job_listings argument given to match_jobs under Spec.
MaxPostings == 3

\* Number of concurrent invocations of match_jobs under SpecConc.
NumCalls == 2

\* Longest job_listings argument given to match_jobs under SpecConc.
MaxConcPostings == 1

\* Longest text given to _text_similarity under SpecScorers.
MaxTextLen == 3

\* Longest resume_skills argument given to calculate_skill_match_score under
\* SpecScorers.
MaxSkills == 3

\* Longest resume_experience argument given to calculate_experience_match
\* under SpecScorers.
MaxEntries == 2

\* Most threads the caller of JobWorker.start() gets to spawn under SpecWorker.
MaxThreads == 2

\* Most calls of schedule_job_search under SpecWorker.
MaxScheduleCalls == 3

----------------------------------------------------------------------------
(* Python values. *)

None == <<"None">>

IsStr(x) == x # None

\* bool(x) for x a str or None.
Truthy(x) == x # None /\ x # << >>

UpperCase == <<"A","B","C","D","E","F","G","H","I","J","K","L","M",
               "N","O","P","Q","R","S","T","U","V","W","X","Y","Z">>

LowerCase == <<"a","b","c","d","e","f","g","h","i","j","k","l","m",
               "n","o","p","q","r","s","t","u","v","w","x","y","z">>

\* The lowercase letter of each uppercase letter.
LowerTable ==
    [c \in {UpperCase[i] : i \in 1..Len(UpperCase)} |->
        LowerCase[CHOOSE i \in 1..Len(UpperCase) : UpperCase[i] = c]]

LowerChar(c) == IF c \in DOMAIN LowerTable THEN LowerTable[c] ELSE c

\* str.lower()
Lower(s) == [i \in 1..Len(s) |-> LowerChar(s[i])]

\* Python's `a in b` for two str.
Contains(a, b) ==
    \E k \in 0..(Len(b) - Len(a)) :
        \A i \in 1..Len(a) : b[k + i] = a[i]

IsSpace(c) == c \in {" ", "\t", "\n"}

\* str.split(): the maximal runs of non-whitespace characters, in order.
RECURSIVE SplitFrom(_, _, _)
SplitFrom(s, i, cur) ==
    IF i > Len(s)
    THEN IF cur = << >> THEN << >> ELSE <<cur>>
    ELSE IF IsSpace(s[i])
         THEN IF cur = << >>
              THEN SplitFrom(s, i + 1, << >>)
              ELSE <<cur>> \o SplitFrom(s, i + 1, << >>)
         ELSE SplitFrom(s, i + 1, Append(cur, s[i]))

Split(s) == SplitFrom(s, 1, << >>)

\* str.replace(",", "")
RECURSIVE DropCommas(_)
DropCommas(s) ==
    IF s = << >> THEN << >>
    ELSE IF Head(s) = "," THEN DropCommas(Tail(s))
         ELSE <<Head(s)>> \o DropCommas(Tail(s))

\* set(list)
ToSet(seq) == {seq[i] : i \in 1..Len(seq)}

\* sep.join(list of str)
RECURSIVE Join(_, _)
Join(sep, strs) ==
    IF strs = << >> THEN << >>
    ELSE IF Len(strs) = 1 THEN strs[1]
         ELSE strs[1] \o sep \o Join(sep, Tail(strs))

\* A faulty variant: the slice is left out.
TakeAll(seq, n) == seq

\* list[:n]
Take(seq, n) == SubSeq(seq, 1, IF Len(seq) < n THEN Len(seq) ELSE n)

\* dict.get(key, default)
DictGet(d, key, default) == IF key \in DOMAIN d THEN d[key] ELSE default

----------------------------------------------------------------------------
(* Floats, as exact rationals. *)

RECURSIVE GCD(_, _)
GCD(a, b) == IF b = 0 THEN a ELSE GCD(b, a % b)

Rat(n, d) ==
    LET g == GCD(IF n < 0 THEN -n ELSE n, d)
    IN  [n |-> n \div g, d |-> d \div g]

RAdd(a, b) == Rat(a.n * b.d + b.n * a.d, a.d * b.d)

RMul(a, b) == Rat(a.n * b.n, a.d * b.d)

RLess(a, b) == a.n * b.d < b.n * a.d

Zero == Rat(0, 1)

One == Rat(1, 1)

\* A faulty variant: the digits after the second decimal are cut off.
Round2Truncate(x) == (100 * x.n) \div x.d

\* round(x, 2), in hundredths; a value exactly half way between two
\* hundredths goes to the even one.
Round2(x) ==
    LET num == 100 * x.n
        q   == num \div x.d
        r   == num % x.d
    IN  IF 2 * r < x.d THEN q
        ELSE IF 2 * r > x.d THEN q + 1
        ELSE IF q % 2 = 0 THEN q ELSE q + 1

----------------------------------------------------------------------------
(* job_matcher.py: the scorers.  A call that raises yields [raised |-> TRUE]. *)

Raised == [raised |-> TRUE]

\* Experience.description is Optional[List[str]] in resume_parser.py and a
\* str in job_matcher.py's own callers; the value carries its Python type.
NoneValue == [type |-> "NoneType", value |-> << >>]

StrValue(s) == [type |-> "str", value |-> s]

ListValue(l) == [type |-> "list", value |-> l]

\* A faulty variant: the overlap is measured against the first text alone.
text_similarity_of_first(text1, text2) ==
    IF text1 = << >> \/ text2 = << >> THEN Zero
    ELSE LET words1 == ToSet(Split(text1))
             words2 == ToSet(Split(text2))
             common_words == words1 \cap words2
         IN  IF words1 = {} \/ words2 = {} THEN Zero
             ELSE Rat(Cardinality(common_words), Cardinality(words1))

\* A faulty variant: the common words are not taken off the denominator.
text_similarity_sum(text1, text2) ==
    IF text1 = << >> \/ text2 = << >> THEN Zero
    ELSE LET words1 == ToSet(Split(text1))
             words2 == ToSet(Split(text2))
             common_words == words1 \cap words2
         IN  IF words1 = {} \/ words2 = {} THEN Zero
             ELSE Rat(Cardinality(common_words),
                      Cardinality(words1) + Cardinality(words2))

\* A faulty variant: the words are counted as lists, repetitions included.
text_similarity_lists(text1, text2) ==
    IF text1 = << >> \/ text2 = << >> THEN Zero
    ELSE LET words1 == Split(text1)
             words2 == Split(text2)
             common_words == ToSet(words1) \cap ToSet(words2)
         IN  IF words1 = << >> \/ words2 = << >> THEN Zero
             ELSE Rat(Cardinality(common_words),
                      Len(words1) + Len(words2) - Cardinality(common_words))

\* JobMatcher._text_similarity(text1, text2)
text_similarity(text1, text2) ==
    IF text1 = << >> \/ text2 = << >> THEN Zero
    ELSE LET words1 == ToSet(Split(text1))
             words2 == ToSet(Split(text2))
             common_words == words1 \cap words2
         IN  IF words1 = {} \/ words2 = {} THEN Zero
             ELSE Rat(Cardinality(common_words),
                      Cardinality(words1) + Cardinality(words2)
                          - Cardinality(common_words))

\* A faulty variant: a skill also matches through one of its keywords.
RECURSIVE MatchingSkillsOrKeywords(_, _)
MatchingSkillsOrKeywords(resume_skills, job_desc_lower) ==
    IF resume_skills = << >> THEN << >>
    ELSE LET skill == Head(resume_skills)
             rest  == MatchingSkillsOrKeywords(Tail(resume_skills), job_desc_lower)
         IN  IF \/ Contains(Lower(skill.name), job_desc_lower)
                \/ \E k \in 1..Len(skill.keywords) :
                       Contains(Lower(skill.keywords[k]), job_desc_lower)
             THEN <<skill.name>> \o rest
             ELSE rest

\* The for loop of calculate_skill_match_score: the names of the skills whose
\* lowercased name occurs in the lowercased description, in input order.
RECURSIVE MatchingSkills(_, _)
MatchingSkills(resume_skills, job_desc_lower) ==
    IF resume_skills = << >> THEN << >>
    ELSE LET skill == Head(resume_skills)
             rest  == MatchingSkills(Tail(resume_skills), job_desc_lower)
         IN  IF Contains(Lower(skill.name), job_desc_lower)
             THEN <<skill.name>> \o rest
             ELSE rest

\* A faulty variant: a candidate with no skills is scored as matching fully.
calculate_skill_match_score_vacuous(resume_skills, job_description) ==
    IF ~IsStr(job_description) THEN Raised
    ELSE LET matching_skills ==
                 MatchingSkills(resume_skills, Lower(job_description))
         IN  [raised   |-> FALSE,
              score    |-> IF Len(resume_skills) = 0 THEN One
                           ELSE Rat(Len(matching_skills), Len(resume_skills)),
              matching |-> matching_skills]

\* JobMatcher.calculate_skill_match_score(resume_skills, job_description)
calculate_skill_match_score(resume_skills, job_description) ==
    IF ~IsStr(job_description) THEN Raised      \* None has no .lower()
    ELSE LET total_skills == Len(resume_skills)
         IN  IF total_skills = 0
             THEN [raised |-> FALSE, score |-> Zero, matching |-> << >>]
             ELSE LET matching_skills ==
                          MatchingSkills(resume_skills, Lower(job_description))
                  IN  [raised   |-> FALSE,
                       score    |-> Rat(Len(matching_skills), total_skills),
                       matching |-> matching_skills]

\* One entry's match_score in calculate_experience_match.
ExperienceEntryScore(exp, job_title_lower, job_desc_lower) ==
    LET title_similarity == text_similarity(Lower(exp.title), job_title_lower)
        exp_desc == IF exp.description.value = << >> THEN << >>
                    ELSE exp.description.value       \* exp.description or ""
        desc_similarity == text_similarity(Lower(exp_desc), job_desc_lower)
    IN  RAdd(RMul(title_similarity, Rat(7, 10)), RMul(desc_similarity, Rat(3, 10)))

\* exp_desc.lower() raises on a non-empty list.
ExperienceEntryRaises(exp) ==
    exp.description.type = "list" /\ exp.description.value # << >>

\* A faulty variant: an entry that equals the best score takes its place.
RECURSIVE ExperienceLoopAtLeast(_, _, _, _, _, _)
ExperienceLoopAtLeast(resume_experience, i, best_match_score, best_match_experience, job_title_lower, job_desc_lower) ==
    IF i > Len(resume_experience)
    THEN [raised |-> FALSE, score |-> best_match_score,
          experience |-> best_match_experience]
    ELSE LET exp == resume_experience[i]
         IN  IF ExperienceEntryRaises(exp) THEN Raised
             ELSE LET match_score ==
                          ExperienceEntryScore(exp, job_title_lower, job_desc_lower)
                  IN  IF ~RLess(match_score, best_match_score)
                      THEN ExperienceLoopAtLeast(resume_experience, i + 1, match_score,
                                                 exp.title, job_title_lower,
                                                 job_desc_lower)
                      ELSE ExperienceLoopAtLeast(resume_experience, i + 1,
                                                 best_match_score,
                                                 best_match_experience,
                                                 job_title_lower, job_desc_lower)

\* The for loop of calculate_experience_match from entry i on.
RECURSIVE ExperienceLoop(_, _, _, _, _, _)
ExperienceLoop(resume_experience, i, best_match_score, best_match_experience, job_title_lower, job_desc_lower) ==
    IF i > Len(resume_experience)
    THEN [raised |-> FALSE, score |-> best_match_score,
          experience |-> best_match_experience]
    ELSE LET exp == resume_experience[i]
         IN  IF ExperienceEntryRaises(exp) THEN Raised
             ELSE LET match_score ==
                          ExperienceEntryScore(exp, job_title_lower, job_desc_lower)
                  IN  IF RLess(best_match_score, match_score)
                      THEN ExperienceLoop(resume_experience, i + 1, match_score,
                                          exp.title, job_title_lower, job_desc_lower)
                      ELSE ExperienceLoop(resume_experience, i + 1, best_match_score,
                                          best_match_experience,
                                          job_title_lower, job_desc_lower)

\* A faulty variant: without the early return for an empty list, and with
\* the best entry initialised to the posting's own title.
calculate_experience_match_unguarded(resume_experience, job_title, job_description) ==
    IF ~IsStr(job_title) \/ ~IsStr(job_description) THEN Raised
    ELSE ExperienceLoop(resume_experience, 1, Zero, job_title,
                        Lower(job_title), Lower(job_description))

\* JobMatcher.calculate_experience_match(resume_experience, job_title,
\*                                       job_description)
calculate_experience_match(resume_experience, job_title, job_description) ==
    IF resume_experience = << >>
    THEN [raised |-> FALSE, score |-> Zero, experience |-> None]
    ELSE IF ~IsStr(job_title) \/ ~IsStr(job_description) THEN Raised
         ELSE ExperienceLoop(resume_experience, 1, Zero, None,
                             Lower(job_title), Lower(job_description))

Remote == <<"r","e","m","o","t","e">>

\* A faulty variant: only None counts as an absent location, "" does not.
calculate_location_match_none_only(resume_location, job_location, remote_preference) ==
    IF ~IsStr(job_location) THEN Raised
    ELSE LET job_location_lower == Lower(job_location)
             is_remote_job == Contains(Remote, job_location_lower)
         IN  IF remote_preference /\ is_remote_job
             THEN [raised |-> FALSE, score |-> One, remote |-> TRUE]
             ELSE IF resume_location = None
             THEN [raised |-> FALSE, score |-> Rat(1, 2), remote |-> FALSE]
             ELSE LET resume_parts == Split(DropCommas(Lower(resume_location)))
                      job_parts    == Split(DropCommas(job_location_lower))
                      common_parts == ToSet(resume_parts) \cap ToSet(job_parts)
                  IN  IF common_parts # {}
                      THEN [raised |-> FALSE, score |-> Rat(4, 5), remote |-> FALSE]
                      ELSE [raised |-> FALSE, score |-> Rat(1, 5), remote |-> FALSE]

\* A faulty variant: the commas are left in the location parts.
calculate_location_match_commas_kept(resume_location, job_location, remote_preference) ==
    IF ~IsStr(job_location) THEN Raised
    ELSE LET job_location_lower == Lower(job_location)
             is_remote_job == Contains(Remote, job_location_lower)
         IN  IF remote_preference /\ is_remote_job
             THEN [raised |-> FALSE, score |-> One, remote |-> TRUE]
             ELSE IF ~Truthy(resume_location)
             THEN [raised |-> FALSE, score |-> Rat(1, 2), remote |-> FALSE]
             ELSE LET resume_parts == Split(Lower(resume_location))
                      job_parts    == Split(job_location_lower)
                      common_parts == ToSet(resume_parts) \cap ToSet(job_parts)
                  IN  IF common_parts # {}
                      THEN [raised |-> FALSE, score |-> Rat(4, 5), remote |-> FALSE]
                      ELSE [raised |-> FALSE, score |-> Rat(1, 5), remote |-> FALSE]

\* A faulty variant: the candidate's location is looked at before the remote
\* rule.
calculate_location_match_candidate_first(resume_location, job_location, remote_preference) ==
    IF ~IsStr(job_location) THEN Raised
    ELSE LET job_location_lower == Lower(job_location)
             is_remote_job == Contains(Remote, job_location_lower)
         IN  IF ~Truthy(resume_location)
             THEN [raised |-> FALSE, score |-> Rat(1, 2), remote |-> FALSE]
             ELSE IF remote_preference /\ is_remote_job
             THEN [raised |-> FALSE, score |-> One, remote |-> TRUE]
             ELSE LET resume_parts == Split(DropCommas(Lower(resume_location)))
                      job_parts    == Split(DropCommas(job_location_lower))
                      common_parts == ToSet(resume_parts) \cap ToSet(job_parts)
                  IN  IF common_parts # {}
                      THEN [raised |-> FALSE, score |-> Rat(4, 5), remote |-> FALSE]
                      ELSE [raised |-> FALSE, score |-> Rat(1, 5), remote |-> FALSE]

\* JobMatcher.calculate_location_match(resume_location, job_location,
\*                                     remote_preference)
calculate_location_match(resume_location, job_location, remote_preference) ==
    IF ~IsStr(job_location) THEN Raised
    ELSE LET job_location_lower == Lower(job_location)
             is_remote_job == Contains(Remote, job_location_lower)
         IN  IF remote_preference /\ is_remote_job
             THEN [raised |-> FALSE, score |-> One, remote |-> TRUE]
             ELSE IF ~Truthy(resume_location)
             THEN [raised |-> FALSE, score |-> Rat(1, 2), remote |-> FALSE]
             ELSE LET resume_parts == Split(DropCommas(Lower(resume_location)))
                      job_parts    == Split(DropCommas(job_location_lower))
                      common_parts == ToSet(resume_parts) \cap ToSet(job_parts)
                  IN  IF common_parts # {}
                      THEN [raised |-> FALSE, score |-> Rat(4, 5), remote |-> FALSE]
                      ELSE [raised |-> FALSE, score |-> Rat(1, 5), remote |-> FALSE]

----------------------------------------------------------------------------
(* job_scraper.py: JobListing. *)

Digits == <<"0","1","2","3","4","5","6","7","8","9">>

\* n written in decimal, zero-padded to `width` characters.
RECURSIVE Pad(_, _)
Pad(n, width) ==
    IF width = 0 THEN << >>
    ELSE Pad(n \div 10, width - 1) \o <<Digits[(n % 10) + 1]>>

\* datetime.isoformat() of a datetime whose microsecond is 0.
isoformat(dt) ==
    Pad(dt.year, 4) \o <<"-">> \o Pad(dt.month, 2) \o <<"-">> \o Pad(dt.day, 2)
        \o <<"T">> \o Pad(dt.hour, 2) \o <<":">> \o Pad(dt.minute, 2)
        \o <<":">> \o Pad(dt.second, 2)

\* A faulty variant: job_type and work_mode are exchanged.
to_dict_exchanged(self) ==
    [job_id       |-> self.job_id,
     title        |-> self.title,
     company      |-> self.company,
     location     |-> self.location,
     description  |-> self.description,
     url          |-> self.url,
     date_posted  |-> isoformat(self.date_posted),
     salary_range |-> self.salary_range,
     job_type     |-> self.work_mode,
     work_mode    |-> self.job_type,
     source       |-> self.source]

\* JobListing.to_dict()
to_dict(self) ==
    [job_id       |-> self.job_id,
     title        |-> self.title,
     company      |-> self.company,
     location     |-> self.location,
     description  |-> self.description,
     url          |-> self.url,
     date_posted  |-> isoformat(self.date_posted),
     salary_range |-> self.salary_range,
     job_type     |-> self.job_type,
     work_mode    |-> self.work_mode,
     source       |-> self.source]

----------------------------------------------------------------------------
(* job_matcher.py: match_jobs. *)

SkillsMatch == <<"S","k","i","l","l","s"," ","m","a","t","c","h",":"," ">>

ExperienceMatch ==
    <<"E","x","p","e","r","i","e","n","c","e"," ","m","a","t","c","h",":"," ">>

RemoteMatch ==
    <<"R","e","m","o","t","e"," ","w","o","r","k"," ",
      "p","r","e","f","e","r","e","n","c","e"," ","m","a","t","c","h">>

LocationMatch ==
    <<"L","o","c","a","t","i","o","n"," ",
      "p","r","e","f","e","r","e","n","c","e"," ","m","a","t","c","h">>

JobTypeMatch == <<"J","o","b"," ","t","y","p","e"," ","m","a","t","c","h",":"," ">>

\* The preferences argument left at its default None (a dict is never equal
\* to it: no dict of the model has the key "NoneType").
NonePreferences == [NoneType |-> TRUE]

\* if preferences is None: preferences = {}
DefaultPreferences(preferences) ==
    IF preferences = NonePreferences THEN << >> ELSE preferences

\* A faulty variant: the weights add up to more than 1.
OverallScoreOverweight(skill_score, experience_score, location_score) ==
    RAdd(RAdd(RMul(skill_score, Rat(1, 2)),
              RMul(experience_score, Rat(3, 10))),
         RMul(location_score, Rat(1, 2)))

\* overall_score, from the three factor scores.
OverallScore(skill_score, experience_score, location_score) ==
    RAdd(RAdd(RMul(skill_score, Rat(1, 2)),
              RMul(experience_score, Rat(3, 10))),
         RMul(location_score, Rat(1, 5)))

\* A faulty variant: the location reason is under an `if` of its own.
MatchReasonsLocationToo(matching_skills, relevant_experience, is_remote_match, location_score, preferences, job) ==
    (IF matching_skills # << >>
     THEN <<SkillsMatch \o Join(<<",", " ">>, Take(matching_skills, 3))>>
     ELSE << >>)
    \o
    (IF Truthy(relevant_experience)
     THEN <<ExperienceMatch \o relevant_experience>>
     ELSE << >>)
    \o
    (IF is_remote_match THEN <<RemoteMatch>> ELSE << >>)
    \o
    (IF RLess(Rat(7, 10), location_score) THEN <<LocationMatch>> ELSE << >>)
    \o
    (IF /\ Truthy(DictGet(preferences, "job_type", None))
        /\ Truthy(job.job_type)
        /\ Contains(Lower(preferences["job_type"]), Lower(job.job_type))
     THEN <<JobTypeMatch \o job.job_type>>
     ELSE << >>)

\* A faulty variant: the job type is compared without lowercasing.
MatchReasonsCaseSensitive(matching_skills, relevant_experience, is_remote_match, location_score, preferences, job) ==
    (IF matching_skills # << >>
     THEN <<SkillsMatch \o Join(<<",", " ">>, Take(matching_skills, 3))>>
     ELSE << >>)
    \o
    (IF Truthy(relevant_experience)
     THEN <<ExperienceMatch \o relevant_experience>>
     ELSE << >>)
    \o
    (IF is_remote_match THEN <<RemoteMatch>>
     ELSE IF RLess(Rat(7, 10), location_score) THEN <<LocationMatch>>
     ELSE << >>)
    \o
    (IF /\ Truthy(DictGet(preferences, "job_type", None))
        /\ Truthy(job.job_type)
        /\ Contains(preferences["job_type"], job.job_type)
     THEN <<JobTypeMatch \o job.job_type>>
     ELSE << >>)

\* A faulty variant: the job type reason is put first.
MatchReasonsJobTypeFirst(matching_skills, relevant_experience, is_remote_match, location_score, preferences, job) ==
    (IF /\ Truthy(DictGet(preferences, "job_type", None))
        /\ Truthy(job.job_type)
        /\ Contains(Lower(preferences["job_type"]), Lower(job.job_type))
     THEN <<JobTypeMatch \o job.job_type>>
     ELSE << >>)
    \o
    (IF matching_skills # << >>
     THEN <<SkillsMatch \o Join(<<",", " ">>, Take(matching_skills, 3))>>
     ELSE << >>)
    \o
    (IF Truthy(relevant_experience)
     THEN <<ExperienceMatch \o relevant_experience>>
     ELSE << >>)
    \o
    (IF is_remote_match THEN <<RemoteMatch>>
     ELSE IF RLess(Rat(7, 10), location_score) THEN <<LocationMatch>>
     ELSE << >>)

\* match_reasons, from the locals of one iteration.
MatchReasons(matching_skills, relevant_experience, is_remote_match, location_score, preferences, job) ==
    (IF matching_skills # << >>
     THEN <<SkillsMatch \o Join(<<",", " ">>, Take(matching_skills, 3))>>
     ELSE << >>)
    \o
    (IF Truthy(relevant_experience)
     THEN <<ExperienceMatch \o relevant_experience>>
     ELSE << >>)
    \o
    (IF is_remote_match THEN <<RemoteMatch>>
     ELSE IF RLess(Rat(7, 10), location_score) THEN <<LocationMatch>>
     ELSE << >>)
    \o
    (IF /\ Truthy(DictGet(preferences, "job_type", None))
        /\ Truthy(job.job_type)
        /\ Contains(Lower(preferences["job_type"]), Lower(job.job_type))
     THEN <<JobTypeMatch \o job.job_type>>
     ELSE << >>)

\* One iteration of the for loop of match_jobs: the locals it binds before it
\* raises or ends, and, when it ends, the matched_job it appends.
LoopBody(resume_data, job, preferences) ==
    LET skill == calculate_skill_match_score(resume_data.skills, job.description)
        b0 == [job |-> job]
    IN
    IF skill.raised THEN [raised |-> TRUE, locals |-> b0]
    ELSE
    LET exp == calculate_experience_match(resume_data.experience, job.title,
                                          job.description)
        b1 == [job |-> job, skill_score |-> skill.score,
               matching_skills |-> skill.matching]
    IN
    IF exp.raised THEN [raised |-> TRUE, locals |-> b1]
    ELSE
    LET location_preference == DictGet(preferences, "location", None)
        work_mode == DictGet(preferences, "work_mode", << >>)
        b2 == [job |-> job, skill_score |-> skill.score,
               matching_skills |-> skill.matching,
               experience_score |-> exp.score,
               relevant_experience |-> exp.experience,
               location_preference |-> location_preference]
    IN
    IF ~IsStr(work_mode) THEN [raised |-> TRUE, locals |-> b2]
    ELSE
    LET remote_preference == (Lower(work_mode) = Remote)
        loc == calculate_location_match(location_preference, job.location,
                                        remote_preference)
        b3 == b2 @@ [remote_preference |-> remote_preference]
    IN
    IF loc.raised THEN [raised |-> TRUE, locals |-> b3]
    ELSE
    LET overall_score == OverallScore(skill.score, exp.score, loc.score)
        match_reasons == MatchReasons(skill.matching, exp.experience, loc.remote,
                                      loc.score, preferences, job)
        matched_job == to_dict(job) @@ [match_score   |-> Round2(overall_score),
                                        match_reasons |-> match_reasons]
    IN  [raised |-> FALSE,
         locals |-> b3 @@ [location_score  |-> loc.score,
                           is_remote_match |-> loc.remote,
                           overall_score   |-> overall_score,
                           match_reasons   |-> match_reasons,
                           matched_job     |-> matched_job],
         matched_job |-> matched_job]

\* A faulty variant: an unstable sort, x goes in front of the elements whose
\* key equals its own.
RECURSIVE InsertBeforeEqual(_, _)
InsertBeforeEqual(sorted, x) ==
    IF sorted = << >> THEN <<x>>
    ELSE IF Head(sorted).match_score > x.match_score
         THEN <<Head(sorted)>> \o InsertBeforeEqual(Tail(sorted), x)
         ELSE <<x>> \o sorted

\* A faulty variant: reverse=True is missing, the sort is ascending.
RECURSIVE InsertAscending(_, _)
InsertAscending(sorted, x) ==
    IF sorted = << >> THEN <<x>>
    ELSE IF Head(sorted).match_score <= x.match_score
         THEN <<Head(sorted)>> \o InsertAscending(Tail(sorted), x)
         ELSE <<x>> \o sorted

\* list.sort is stable, also under reverse=True: x goes behind every element
\* whose key is greater than or equal to its own.
RECURSIVE InsertByMatchScore(_, _)
InsertByMatchScore(sorted, x) ==
    IF sorted = << >> THEN <<x>>
    ELSE IF Head(sorted).match_score >= x.match_score
         THEN <<Head(sorted)>> \o InsertByMatchScore(Tail(sorted), x)
         ELSE <<x>> \o sorted

\* matched_jobs.sort(key=lambda x: x["match_score"], reverse=True)
RECURSIVE SortByMatchScore(_)
SortByMatchScore(jobs) ==
    IF jobs = << >> THEN << >>
    ELSE InsertByMatchScore(SortByMatchScore(SubSeq(jobs, 1, Len(jobs) - 1)),
                            jobs[Len(jobs)])

\* A faulty variant: a posting that matched for no reason is left out.
AppendIfReasons(jobs, matched_job) ==
    IF matched_job.match_reasons = << >> THEN jobs ELSE Append(jobs, matched_job)

\* matched_jobs.append(matched_job)
AppendMatched(jobs, matched_job) == Append(jobs, matched_job)

\* What match_jobs does when it runs alone, from its arguments only.
MatchJobsAlone(resume_data, job_listings, preferences) ==
    LET prefs == DefaultPreferences(preferences)
        body(i) == LoopBody(resume_data, job_listings[i], prefs)
    IN  IF \E i \in 1..Len(job_listings) : body(i).raised
        THEN [raised |-> TRUE, value |-> << >>]
        ELSE [raised |-> FALSE,
              value  |-> SortByMatchScore(
                             [i \in 1..Len(job_listings) |-> body(i).matched_job])]

----------------------------------------------------------------------------
(* The inputs the model draws from. *)

sGo == <<"G","o">>

sSQL == <<"S","Q","L">>

sDev == <<"D","e","v">>

sDataDev == <<"D","a","t","a"," ","D","e","v">>

sQA == <<"Q","A">>

sAcme == <<"A","c","m","e">>

sInit == <<"I","n","i","t">>

sRemote == <<"R","e","m","o","t","e">>

sNYUS == <<"N","Y",","," ","U","S">>

sLAUS == <<"L","A",","," ","U","S">>

sGoSQL == <<"G","o"," ","S","Q","L">>

sSqlGo == <<"s","q","l"," "," ","g","o">>

sFull == <<"F","u","l","l">>

sPart == <<"P","a","r","t">>

sLinkedin == <<"l","i","n","k","e","d","i","n">>

sIndeed == <<"i","n","d","e","e","d">>

Date1 == [year |-> 2024, month |-> 3, day |-> 9,
          hour |-> 14, minute |-> 5, second |-> 0]

Date2 == [year |-> 2023, month |-> 11, day |-> 30,
          hour |-> 8, minute |-> 45, second |-> 59]

JobRemoteDev ==
    [job_id |-> <<"j","1">>, title |-> sDev, company |-> sAcme,
     location |-> sRemote, description |-> sGoSQL, url |-> <<"u","1">>,
     date_posted |-> Date1, salary_range |-> None, job_type |-> sFull,
     work_mode |-> sRemote, source |-> sLinkedin]

JobDataDev ==
    [job_id |-> <<"j","2">>, title |-> sDataDev, company |-> sAcme,
     location |-> sNYUS, description |-> sSQL, url |-> <<"u","2">>,
     date_posted |-> Date2, salary_range |-> <<"9","0","K">>, job_type |-> None,
     work_mode |-> None, source |-> sIndeed]

\* Scores exactly as JobDataDev does, under every profile and preferences.
JobDataDevTwin ==
    [job_id |-> <<"j","3">>, title |-> sDataDev, company |-> sInit,
     location |-> sNYUS, description |-> sSQL, url |-> <<"u","3">>,
     date_posted |-> Date1, salary_range |-> None, job_type |-> sFull,
     work_mode |-> <<"H","y","b","r","i","d">>, source |-> sLinkedin]

JobQA ==
    [job_id |-> <<"j","4">>, title |-> sQA, company |-> sInit,
     location |-> sLAUS, description |-> << >>, url |-> <<"u","4">>,
     date_posted |-> Date2, salary_range |-> None, job_type |-> sPart,
     work_mode |-> None, source |-> sIndeed]

\* Malformed postings: a required field is absent.
JobNoTitle ==
    [job_id |-> <<"j","5">>, title |-> None, company |-> sAcme,
     location |-> sNYUS, description |-> sGoSQL, url |-> <<"u","5">>,
     date_posted |-> Date1, salary_range |-> None, job_type |-> sFull,
     work_mode |-> None, source |-> sIndeed]

JobNoDescription ==
    [job_id |-> <<"j","6">>, title |-> sDev, company |-> sAcme,
     location |-> sRemote, description |-> None, url |-> <<"u","6">>,
     date_posted |-> Date2, salary_range |-> None, job_type |-> sFull,
     work_mode |-> sRemote, source |-> sLinkedin]

Postings == {JobRemoteDev, JobDataDev, JobDataDevTwin, JobQA,
             JobNoTitle, JobNoDescription}

\* Skill(name, level, keywords), as job_matcher.py and job_worker.py build it.
SkillGo == [name |-> sGo, level |-> None, keywords |-> << >>]

SkillSQL ==
    [name |-> sSQL, level |-> <<"E","x","p","e","r","t">>,
     keywords |-> << <<"M","y","S","Q","L">> >>]

SkillML == [name |-> <<"M","L">>, level |-> None, keywords |-> <<sSQL, sGo>>]

SkillSqlLower == [name |-> <<"s","q","l">>, level |-> None, keywords |-> << >>]

\* A skill without a name, as the worker builds from skill.get("name", "").
SkillUnnamed == [name |-> << >>, level |-> << >>, keywords |-> << >>]

ExpDev == [title |-> sDev, company |-> sAcme, description |-> StrValue(sSqlGo)]

ExpDataDev == [title |-> sDataDev, company |-> sInit, description |-> NoneValue]

\* Scores as ExpDev does against every posting, under another title.
ExpDevLower ==
    [title |-> <<"d","e","v">>, company |-> sInit, description |-> StrValue(sGoSQL)]

\* An entry without a title, as the worker builds from exp.get("title", "").
ExpUntitled ==
    [title |-> << >>, company |-> sAcme,
     description |-> StrValue(<<"S","Q","L"," ","a","n","d"," ","M","L">>)]

ExpQA ==
    [title |-> sQA, company |-> sInit,
     description |-> StrValue(<<"t","e","s","t","s">>)]

ExpListed ==
    [title |-> sQA, company |-> sInit,
     description |-> ListValue(<< <<"t","e","s","t","s">> >>)]

ResumeEmpty == [skills |-> << >>, experience |-> << >>]

ResumeSkillsOnly == [skills |-> <<SkillSQL, SkillGo>>, experience |-> << >>]

ResumeExperienceOnly == [skills |-> << >>, experience |-> <<ExpDataDev, ExpDev>>]

ResumeFull == [skills |-> <<SkillGo, SkillSQL>>, experience |-> <<ExpDev, ExpDataDev>>]

ResumeThreeSkills ==
    [skills |-> <<SkillGo, SkillML, SkillSQL>>, experience |-> << >>]

ResumeManySkills ==
    [skills |-> <<SkillSQL, SkillML, SkillGo, SkillSqlLower, SkillUnnamed>>,
     experience |-> << >>]

ResumeUntitled == [skills |-> << >>, experience |-> <<ExpQA, ExpUntitled>>]

\* As resume_parser.py builds it: the description is a list of strings.
ResumeParsed == [skills |-> <<SkillSQL>>, experience |-> <<ExpListed>>]

Resumes == {ResumeEmpty, ResumeSkillsOnly, ResumeExperienceOnly, ResumeFull,
            ResumeThreeSkills, ResumeManySkills, ResumeUntitled, ResumeParsed}

\* JobPreference(...).dict() of main.py with the optional fields left out.
PrefsUnset == [location |-> None, work_mode |-> None, job_type |-> None]

PrefsRemote == [work_mode |-> sRemote]

PrefsLocal ==
    [location |-> sNYUS, work_mode |-> <<"h","y","b","r","i","d">>,
     job_type |-> <<"f","u","l","l">>]

PrefsElsewhere == [location |-> <<"l","a">>, job_type |-> sPart]

PrefsRemoteLocal == [location |-> sNYUS, work_mode |-> Remote]

PreferencesArgs == {NonePreferences, << >>, PrefsUnset, PrefsRemote, PrefsLocal,
                    PrefsElsewhere, PrefsRemoteLocal}

SeqsUpTo(S, n) == UNION {[1..k -> S] : k \in 0..n}

ConcPostings == {JobRemoteDev, JobDataDev}

ConcResumes == {ResumeFull}

ConcPreferencesArgs == {PrefsRemote, PrefsUnset}

----------------------------------------------------------------------------
(* The state: the invocations of match_jobs on the one JobMatcher instance. *)

VARIABLES
    pc,            \* pc[c]: "idle", "loop", "returned" or "raised"
    args,          \* args[c]: the caller's resume_data, job_listings, preferences
    locals,        \* locals[c]: the locals the call has bound, by name
    matched_jobs,  \* the matched_jobs list of each call
    returned,      \* returned[c]: the list the call returned
    running,         \* JobWorker.running
    worker_thread,   \* JobWorker.worker_thread: 0 for None, or a thread
    threads,         \* threads[t]: where thread t is in _run_scheduler
    caller,          \* where the caller of start() and stop() is
    jobs,            \* JobWorker.scheduler.jobs
    schedule_calls,  \* the calls of schedule_job_search made so far
    search,          \* the call of process_user_job_search
    notification,    \* the call of NotificationService.send_notification
    server           \* the requests the server API and the channels got

matcherVars == <<pc, args, locals, matched_jobs, returned>>

workerVars == <<running, worker_thread, threads, caller, jobs, schedule_calls>>

serviceVars == <<workerVars, search, notification, server>>

vars == <<matcherVars, serviceVars>>

CallIds == 1..NumCalls

\* A faulty variant: the list is an attribute of the shared instance.
SharedList(c) == 1

\* matched_jobs = [] binds a list of the call's own.
ListOf(c) == c

\* No call of match_jobs is under way.
InitMatcher ==
    /\ pc = [c \in CallIds |-> "idle"]
    /\ args = [c \in CallIds |-> << >>]
    /\ locals = [c \in CallIds |-> << >>]
    /\ matched_jobs = [c \in CallIds |-> << >>]
    /\ returned = [c \in CallIds |-> << >>]

\* JobWorker.__init__, job_worker.py lines 43-48.
InitWorker ==
    /\ running = FALSE
    /\ worker_thread = 0
    /\ threads = << >>
    /\ caller = "idle"
    /\ jobs = << >>
    /\ schedule_calls = << >>
    /\ search = [pc |-> "idle"]

\* NotificationService.__init__, notification_service.py lines 272-281: the
\* email channel first, the push channel second, each if it is configured.
Channels(email_configured, push_configured) ==
    (IF email_configured THEN <<"email">> ELSE << >>)
        \o (IF push_configured THEN <<"push">> ELSE << >>)

Init ==
    /\ InitMatcher
    /\ InitWorker
    /\ notification = [pc |-> "idle", channels |-> Channels(FALSE, FALSE)]
    /\ server = << >>

\* match_jobs is entered, lines 233-236, with arguments drawn from the sets
\* given.
Call(c, resumes, listings, preferences_args) ==
    /\ pc[c] = "idle"
    /\ \E resume_data \in resumes, job_listings \in listings,
          preferences \in preferences_args :
           /\ args' = [args EXCEPT ![c] = [resume_data  |-> resume_data,
                                           job_listings |-> job_listings,
                                           preferences  |-> preferences]]
           /\ locals' = [locals EXCEPT ![c] =
                             [preferences |-> DefaultPreferences(preferences),
                              next |-> 1]]
    /\ pc' = [pc EXCEPT ![c] = "loop"]
    /\ matched_jobs' = [matched_jobs EXCEPT ![ListOf(c)] = << >>]
    /\ UNCHANGED <<returned, serviceVars>>

\* One iteration of `for job in job_listings`: lines 238-290.
Iterate(c) ==
    /\ pc[c] = "loop"
    /\ locals[c].next <= Len(args[c].job_listings)
    /\ LET job  == args[c].job_listings[locals[c].next]
           body == LoopBody(args[c].resume_data, job, locals[c].preferences)
       IN  /\ locals' = [locals EXCEPT ![c] =
                             [preferences |-> locals[c].preferences,
                              next |-> locals[c].next + 1] @@ body.locals]
           /\ IF body.raised
              THEN /\ pc' = [pc EXCEPT ![c] = "raised"]
                   /\ UNCHANGED matched_jobs
              ELSE /\ matched_jobs' =
                          [matched_jobs EXCEPT ![ListOf(c)] =
                               AppendMatched(matched_jobs[ListOf(c)], body.matched_job)]
                   /\ UNCHANGED pc
    /\ UNCHANGED <<args, returned, serviceVars>>

\* The loop is over: sort in place and return, lines 292-295.
Return(c) ==
    /\ pc[c] = "loop"
    /\ locals[c].next > Len(args[c].job_listings)
    /\ matched_jobs' = [matched_jobs EXCEPT ![ListOf(c)] =
                            SortByMatchScore(matched_jobs[ListOf(c)])]
    /\ returned' = [returned EXCEPT ![c] = matched_jobs'[ListOf(c)]]
    /\ pc' = [pc EXCEPT ![c] = "returned"]
    /\ UNCHANGED <<args, locals, serviceVars>>

\* One invocation at a time, over the whole range of inputs.
Next ==
    \/ Call(1, Resumes, SeqsUpTo(Postings, MaxPostings), PreferencesArgs)
    \/ Iterate(1)
    \/ Return(1)

Spec == Init /\ [][Next]_vars

\* Concurrent invocations on the shared instance (main.py's job_matcher, the
\* worker's self.job_matcher), interleaved at every iteration.
NextConc ==
    \/ \E c \in CallIds :
           Call(c, ConcResumes, SeqsUpTo(ConcPostings, MaxConcPostings),
                ConcPreferencesArgs)
    \/ \E c \in CallIds : Iterate(c)
    \/ \E c \in CallIds : Return(c)

SpecConc == Init /\ [][NextConc]_vars

----------------------------------------------------------------------------
(* The scorers invoked on their own, each a public method of JobMatcher:   *)
(* args[c] holds the method's name and arguments, returned[c] its result.  *)

\* The characters of the texts given to _text_similarity.
TextAlphabet == {"a", "b", " "}

Texts == SeqsUpTo(TextAlphabet, MaxTextLen)

\* _text_similarity(text1, text2), lines 172-188.
CallTextSimilarity(c) ==
    /\ pc[c] = "idle"
    /\ \E text1 \in Texts, text2 \in Texts :
           /\ args' = [args EXCEPT ![c] = [method |-> "_text_similarity",
                                           text1  |-> text1,
                                           text2  |-> text2]]
           /\ returned' = [returned EXCEPT ![c] = text_similarity(text1, text2)]
    /\ pc' = [pc EXCEPT ![c] = "returned"]
    /\ UNCHANGED <<locals, matched_jobs, serviceVars>>

\* The candidate's preferred location: absent, empty or a place.
ResumeLocations == {None, << >>, sNYUS, <<"l","a">>, <<"U","S",","," ","N","Y">>}

sRemoteUS == <<"R","E","M","O","T","E",","," ","U","S">>

JobLocations == {sRemote, sRemoteUS, sNYUS, sLAUS, << >>}

\* calculate_location_match(resume_location, job_location, remote_preference),
\* lines 190-222.
CallLocationMatch(c) ==
    /\ pc[c] = "idle"
    /\ \E resume_location \in ResumeLocations, job_location \in JobLocations,
          remote_preference \in BOOLEAN :
           /\ args' = [args EXCEPT ![c] =
                           [method            |-> "calculate_location_match",
                            resume_location   |-> resume_location,
                            job_location      |-> job_location,
                            remote_preference |-> remote_preference]]
           /\ returned' = [returned EXCEPT ![c] =
                               calculate_location_match(resume_location, job_location,
                                                        remote_preference)]
    /\ pc' = [pc EXCEPT ![c] = "returned"]
    /\ UNCHANGED <<locals, matched_jobs, serviceVars>>

ExperienceEntries == {ExpDev, ExpDevLower, ExpDataDev, ExpUntitled, ExpQA, ExpListed}

JobTitles == {sDev, sDataDev, None}

JobDescriptions == {sGoSQL, sSQL, sSqlGo, << >>, None}

\* calculate_experience_match(resume_experience, job_title, job_description),
\* lines 137-170.
CallExperienceMatch(c) ==
    /\ pc[c] = "idle"
    /\ \E resume_experience \in SeqsUpTo(ExperienceEntries, MaxEntries),
          job_title \in JobTitles, job_description \in JobDescriptions :
           /\ args' = [args EXCEPT ![c] =
                           [method            |-> "calculate_experience_match",
                            resume_experience |-> resume_experience,
                            job_title         |-> job_title,
                            job_description   |-> job_description]]
           /\ returned' = [returned EXCEPT ![c] =
                               calculate_experience_match(resume_experience, job_title,
                                                          job_description)]
    /\ pc' = [pc EXCEPT ![c] = "returned"]
    /\ UNCHANGED <<locals, matched_jobs, serviceVars>>

Skills == {SkillGo, SkillSQL, SkillML, SkillUnnamed}

\* calculate_skill_match_score(resume_skills, job_description), lines 116-135.
CallSkillMatchScore(c) ==
    /\ pc[c] = "idle"
    /\ \E resume_skills \in SeqsUpTo(Skills, MaxSkills),
          job_description \in JobDescriptions :
           /\ args' = [args EXCEPT ![c] =
                           [method          |-> "calculate_skill_match_score",
                            resume_skills   |-> resume_skills,
                            job_description |-> job_description]]
           /\ returned' = [returned EXCEPT ![c] =
                               calculate_skill_match_score(resume_skills,
                                                           job_description)]
    /\ pc' = [pc EXCEPT ![c] = "returned"]
    /\ UNCHANGED <<locals, matched_jobs, serviceVars>>

NextScorers ==
    \/ CallTextSimilarity(1)
    \/ CallSkillMatchScore(1)
    \/ CallExperienceMatch(1)
    \/ CallLocationMatch(1)

SpecScorers == Init /\ [][NextScorers]_vars

----------------------------------------------------------------------------
(* job_worker.py: JobWorker, its thread and its scheduler.  start(), stop() *)
(* and schedule_job_search() are called from main.py's event loop, one at  *)
(* a time; the threads that run _run_scheduler go on beside them.          *)

\* The threads that have not left _run_scheduler.
Alive == {t \in 1..Len(threads) : threads[t] # "exited"}

\* JobWorker.start(), lines 50-60.
Start ==
    /\ caller = "idle"
    /\ Len(threads) < MaxThreads
    /\ IF running
       THEN UNCHANGED <<running, threads, worker_thread>>
       ELSE /\ running' = TRUE
            /\ threads' = Append(threads, "test")
            /\ worker_thread' = Len(threads) + 1
    /\ UNCHANGED <<caller, jobs, schedule_calls, search, notification, server,
                   matcherVars>>

\* JobWorker.stop(), lines 62-65: the flag is cleared, and a thread that was
\* ever started is joined.
Stop ==
    /\ caller = "idle"
    /\ running' = FALSE
    /\ caller' = IF worker_thread # 0 THEN "join" ELSE "idle"
    /\ UNCHANGED <<worker_thread, threads, jobs, schedule_calls, search,
                   notification, server, matcherVars>>

\* join(timeout=2.0) returns because the thread has ended, lines 66-67.
JoinEnded ==
    /\ caller = "join"
    /\ threads[worker_thread] = "exited"
    /\ caller' = "idle"
    /\ UNCHANGED <<running, worker_thread, threads, jobs, schedule_calls, search,
                   notification, server, matcherVars>>

\* join(timeout=2.0) returns because the two seconds are over, with the
\* thread still inside run_pending() or sleep(1).
JoinTimedOut ==
    /\ caller = "join"
    /\ threads[worker_thread] = "body"
    /\ caller' = "idle"
    /\ UNCHANGED <<running, worker_thread, threads, jobs, schedule_calls, search,
                   notification, server, matcherVars>>

\* `while self.running`, line 71, evaluated by thread t.
RunSchedulerTest(t) ==
    /\ t \in 1..Len(threads)
    /\ threads[t] = "test"
    /\ threads' = [threads EXCEPT ![t] = IF running THEN "body" ELSE "exited"]
    /\ UNCHANGED <<running, worker_thread, caller, jobs, schedule_calls, search,
                   notification, server, matcherVars>>

\* run_pending() and sleep(1), lines 72-73, done by thread t.
RunSchedulerBody(t) ==
    /\ t \in 1..Len(threads)
    /\ threads[t] = "body"
    /\ threads' = [threads EXCEPT ![t] = "test"]
    /\ UNCHANGED <<running, worker_thread, caller, jobs, schedule_calls, search,
                   notification, server, matcherVars>>

UserIds == {"u1", "u2"}

\* schedule_interval_hours: the default of line 35 and the 1 of line 335.
IntervalHours == {12, 1}

\* f"job_search_{user_id}"
Tag(user_id) == <<"job_search_", user_id>>

\* A faulty variant: clear() without a tag, which drops every job.
ClearAll(scheduler_jobs, tag) == << >>

\* Scheduler.clear(tag): the jobs that carry the tag are dropped.
Clear(scheduler_jobs, tag) ==
    SelectSeq(scheduler_jobs, LAMBDA job : tag \notin job.tags)

\* every().day.at(...).do(self.process_user_job_search, user_id).tag(...)
DailyJob(user_id) ==
    [interval |-> 1, unit |-> "days", at_time |-> TRUE,
     job_func |-> <<"process_user_job_search", user_id>>, tags |-> {Tag(user_id)}]

\* every(schedule_interval_hours).hours.do(...).tag(...)
HoursJob(user_id, schedule_interval_hours) ==
    [interval |-> schedule_interval_hours, unit |-> "hours", at_time |-> FALSE,
     job_func |-> <<"process_user_job_search", user_id>>, tags |-> {Tag(user_id)}]

\* JobWorker.schedule_job_search(user_id, schedule_interval_hours),
\* lines 75-101.
ScheduleJobSearch ==
    /\ caller = "idle"
    /\ Len(schedule_calls) < MaxScheduleCalls
    /\ \E user_id \in UserIds, schedule_interval_hours \in IntervalHours :
           /\ jobs' = Clear(jobs, Tag(user_id))
                          \o <<DailyJob(user_id),
                               HoursJob(user_id, schedule_interval_hours)>>
           /\ schedule_calls' =
                  Append(schedule_calls,
                         [user_id |-> user_id,
                          schedule_interval_hours |-> schedule_interval_hours])
    /\ UNCHANGED <<running, worker_thread, threads, caller, search, notification,
                   server, matcherVars>>

NextWorker ==
    \/ Start
    \/ Stop
    \/ JoinEnded
    \/ JoinTimedOut
    \/ \E t \in 1..MaxThreads : RunSchedulerTest(t)
    \/ \E t \in 1..MaxThreads : RunSchedulerBody(t)
    \/ ScheduleJobSearch

SpecWorker == Init /\ [][NextWorker]_vars

----------------------------------------------------------------------------
(* job_worker.py: one pass of process_user_job_search. *)

\* DEFAULT_MATCH_THRESHOLD = 0.6, in hundredths as match_score is.
DEFAULT_MATCH_THRESHOLD == 60

\* `not d` for a dict d.
IsEmptyDict(d) == DOMAIN d = {}

\* What a call gave: the value it returned, or that it raised.
Returns(value) == [raised |-> FALSE, value |-> value]

Raises == [raised |-> TRUE, value |-> << >>]

\* The profiles GET /users/<user_id>/profile answers with.
ProfileFull ==
    [resume |->
         [skills |-> <<[name |-> sGo],
                       [name |-> sSQL, level |-> <<"E","x","p","e","r","t">>,
                        keywords |-> << <<"M","y","S","Q","L">> >>]>>,
          experience |-> <<[title |-> sDev, company |-> sAcme,
                            description |-> StrValue(sSqlGo)],
                           [title |-> sDataDev, company |-> sInit]>>],
     preferences |-> PrefsRemoteLocal]

\* No preferences; an experience entry without title or description.
ProfileSkills ==
    [resume |-> [skills |-> <<[name |-> sSQL], [name |-> sGo]>>,
                 experience |-> <<[company |-> sAcme]>>]]

\* No resume.
ProfileBare == [email |-> <<"a","@","b">>, preferences |-> PrefsElsewhere]

\* "preferences": null
ProfileNullPreferences ==
    [resume |-> [skills |-> <<[name |-> sGo]>>], preferences |-> NonePreferences]

\* "work_mode": null, as main.py's JobPreference(...).dict() gives it.
ProfileNoWorkMode ==
    [resume |-> [skills |-> <<[name |-> sGo], [name |-> sSQL]>>], preferences |-> PrefsUnset]

\* _fetch_user_data, lines 167-178: the body of a 200 answer, or {} after
\* any other status and after an exception.
FetchResponses == {<< >>, ProfileFull, ProfileSkills, ProfileBare,
                   ProfileNullPreferences, ProfileNoWorkMode}

\* The lists job_aggregator.search_jobs answers with.
SearchResults ==
    {<< >>,
     <<JobRemoteDev>>,
     <<JobQA, JobDataDev, JobRemoteDev>>,
     <<JobRemoteDev, JobNoTitle>>,
     <<JobDataDev, JobRemoteDev, JobDataDevTwin, JobRemoteDev, JobDataDev, JobQA,
       JobRemoteDev>>}

\* What a requests.post ends with: status 200, another status, an exception.
HttpOutcomes == {"200", "500", "exception"}

\* Skill(name=skill.get("name", ""), ...), lines 186-191.
ParseSkill(skill) ==
    [name |-> DictGet(skill, "name", << >>),
     level |-> DictGet(skill, "level", << >>),
     keywords |-> DictGet(skill, "keywords", << >>)]

\* Experience(title=exp.get("title", ""), ...), lines 196-203.
ParseExperience(exp) ==
    [title |-> DictGet(exp, "title", << >>),
     company |-> DictGet(exp, "company", << >>),
     description |-> DictGet(exp, "description", StrValue(<< >>))]

\* _parse_user_resume_data, lines 180-231.
parse_user_resume_data(resume_json) ==
    LET skills == DictGet(resume_json, "skills", << >>)
        experience == DictGet(resume_json, "experience", << >>)
    IN  [skills |-> [i \in 1..Len(skills) |-> ParseSkill(skills[i])],
         experience |-> [i \in 1..Len(experience) |-> ParseExperience(experience[i])]]

\* _extract_search_keywords, lines 233-261: list(set(keywords)), of which
\* the first ten in the set's order are sent; no profile here has as many.
extract_search_keywords(resume_data, preferences) ==
    LET title == DictGet(preferences, "title", None)
        industry == DictGet(preferences, "industry", None)
    IN  {resume_data.skills[i].name : i \in 1..Len(resume_data.skills)}
        \cup (IF Truthy(title) THEN {title} ELSE {})
        \cup (IF Truthy(industry) THEN {industry} ELSE {})
        \cup (IF resume_data.experience # << >>
                 /\ resume_data.experience[1].title # << >>
              THEN {resume_data.experience[1].title} ELSE {})

\* A faulty variant: process_user_job_search without its except clause.
Propagate(outcome) == outcome

\* except Exception as e: ... return [], lines 163-165.
ExceptException(outcome) == IF outcome.raised THEN Returns(<< >>) ELSE outcome

\* A faulty variant: the filter keeps the scores above the threshold only.
RelevantMatchesAbove(jobs_matched) ==
    SelectSeq(jobs_matched, LAMBDA job : job.match_score > DEFAULT_MATCH_THRESHOLD)

\* [job for job in matched_jobs if job["match_score"] >= DEFAULT_MATCH_THRESHOLD]
RelevantMatches(jobs_matched) ==
    SelectSeq(jobs_matched, LAMBDA job : job.match_score >= DEFAULT_MATCH_THRESHOLD)

\* sorted(job_matches, key=lambda x: x["match_score"], reverse=True)[:5]
TopMatches(job_matches) == Take(SortByMatchScore(job_matches), 5)

\* The JSON of the notification, lines 293-302.
JobNotificationData(user_id, job_matches) ==
    LET top_matches == TopMatches(job_matches)
    IN  [user_id |-> user_id,
         type |-> "job_matches",
         title |-> <<"Found ", Len(job_matches), " job matches for you">>,
         message |-> <<"Top match: ", top_matches[1].title, " at ",
                       top_matches[1].company>>,
         data |-> [match_count |-> Len(job_matches), top_matches |-> top_matches]]

\* The frame of the call once user_data is fetched.
NewSearch(user_id, user_data) ==
    [pc |-> "fetched", user_id |-> user_id, user_data |-> user_data,
     resume_data |-> << >>, preferences |-> << >>, search_keywords |-> {},
     location |-> None, job_listings |-> << >>, matched |-> Raises,
     relevant_matches |-> << >>, result |-> Raises]

\* The call is over: it returned, or let an exception out.
Finish(s, outcome) == [s EXCEPT !.pc = "returned", !.result = ExceptException(outcome)]

\* Lines 113-123: fetch the profile, parse it, extract the keywords.
FetchUserData ==
    /\ search.pc = "idle"
    /\ \E user_id \in UserIds, user_data \in FetchResponses :
          LET s == NewSearch(user_id, user_data)
              preferences == DictGet(user_data, "preferences", << >>)
              resume_data ==
                  parse_user_resume_data(DictGet(user_data, "resume", << >>))
          IN  search' =
                  IF IsEmptyDict(user_data) THEN Finish(s, Returns(<< >>))
                  ELSE IF preferences = NonePreferences THEN Finish(s, Raises)
                  ELSE [s EXCEPT !.pc = "search",
                                 !.resume_data = resume_data,
                                 !.preferences = preferences,
                                 !.search_keywords =
                                     extract_search_keywords(resume_data, preferences),
                                 !.location = DictGet(preferences, "location", None)]
    /\ UNCHANGED <<workerVars, notification, server, matcherVars>>

\* Lines 126-135: the search, which answers with a list or raises.
SearchJobs ==
    /\ search.pc = "search"
    /\ \E outcome \in {Raises} \cup {Returns(l) : l \in SearchResults} :
          search' =
              IF outcome.raised THEN Finish(search, Raises)
              ELSE IF outcome.value = << >> THEN Finish(search, Returns(<< >>))
              ELSE [search EXCEPT !.pc = "match", !.job_listings = outcome.value]
    /\ UNCHANGED <<workerVars, notification, server, matcherVars>>

\* Lines 140-157: match_jobs, the filter, and the test of the filtered list.
MatchAndFilter ==
    /\ search.pc = "match"
    /\ \E matched \in {MatchJobsAlone(search.resume_data, search.job_listings,
                                      search.preferences)} :
          search' =
              IF matched.raised
              THEN Finish([search EXCEPT !.matched = matched], Raises)
              ELSE IF RelevantMatches(matched.value) = << >>
              THEN Finish([search EXCEPT !.matched = matched], Returns(<< >>))
              ELSE [search EXCEPT !.pc = "store", !.matched = matched,
                                  !.relevant_matches = RelevantMatches(matched.value)]
    /\ UNCHANGED <<workerVars, notification, server, matcherVars>>

\* _store_job_matches, lines 263-277: whatever the request ends with is
\* logged and the call goes on.
StoreJobMatches ==
    /\ search.pc = "store"
    /\ \E outcome \in HttpOutcomes :
          server' = Append(server, [request |-> "POST job-matches",
                                    user_id |-> search.user_id,
                                    json |-> [matches |-> search.relevant_matches],
                                    outcome |-> outcome])
    /\ search' = [search EXCEPT !.pc = "notify"]
    /\ UNCHANGED <<workerVars, notification, matcherVars>>

\* _send_job_notifications, lines 279-316, and the return of line 160.
SendJobNotifications ==
    /\ search.pc = "notify"
    /\ \E outcome \in HttpOutcomes :
          server' = Append(server, [request |-> "POST notifications",
                                    user_id |-> search.user_id,
                                    json |-> JobNotificationData(search.user_id,
                                                                 search.relevant_matches),
                                    outcome |-> outcome])
    /\ search' = Finish(search, Returns(search.relevant_matches))
    /\ UNCHANGED <<workerVars, notification, matcherVars>>

NextSearch ==
    \/ FetchUserData
    \/ SearchJobs
    \/ MatchAndFilter
    \/ StoreJobMatches
    \/ SendJobNotifications

SpecSearch == Init /\ [][NextSearch]_vars

----------------------------------------------------------------------------
(* notification_service.py: one call of NotificationService.send_notification. *)

\* The service as the environment configures it.
InitNotify ==
    /\ InitMatcher
    /\ InitWorker
    /\ \E email_configured, push_configured \in BOOLEAN :
          notification = [pc |-> "idle",
                          channels |-> Channels(email_configured, push_configured)]
    /\ server = << >>

\* A faulty variant: the last channel's answer replaces the earlier ones.
LastChannelOnly(success, channel_success) == channel_success

\* success = success or channel_success
SuccessOr(success, channel_success) == success \/ channel_success

\* notification_data, lines 297-303, with data left at its default None.
NotificationData(notification_type, now) ==
    [title |-> <<"t">>, message |-> <<"m">>, type |-> notification_type,
     data |-> << >>, timestamp |-> isoformat(now)]

\* Lines 292-309: without channels return False; else build the data, have
\* _store_notification (lines 343-362) post it, whatever that request ends
\* with, and enter the loop.
SendNotification ==
    /\ notification.pc = "idle"
    /\ IF notification.channels = << >>
       THEN /\ notification' = [pc |-> "returned", channels |-> << >>,
                                result |-> FALSE]
            /\ UNCHANGED server
       ELSE \E user_id \in UserIds, notification_type \in {"general", "job_matches"},
               outcome \in HttpOutcomes :
               LET notification_data == NotificationData(notification_type, Date1)
               IN  /\ server' = Append(server,
                                       [request |-> "POST notifications",
                                        json |-> [user_id |-> user_id,
                                                  notification |-> notification_data],
                                        outcome |-> outcome])
                   /\ notification' = [pc |-> "channels",
                                       channels |-> notification.channels,
                                       user_id |-> user_id,
                                       notification_data |-> notification_data,
                                       next |-> 1,
                                       success |-> FALSE]
    /\ UNCHANGED <<workerVars, search, matcherVars>>

\* One iteration of `for channel in self.channels`, lines 310-312: the
\* channel answers True or False, it never raises.
TryChannel ==
    /\ notification.pc = "channels"
    /\ notification.next <= Len(notification.channels)
    /\ \E channel_success \in BOOLEAN :
          /\ server' = Append(server,
                              [request |-> notification.channels[notification.next],
                               user_id |-> notification.user_id,
                               notification_data |-> notification.notification_data,
                               channel_success |-> channel_success])
          /\ notification' =
                 [notification EXCEPT
                      !.next = @ + 1,
                      !.success = SuccessOr(notification.success, channel_success)]
    /\ UNCHANGED <<workerVars, search, matcherVars>>

\* return success, line 313.
ReturnSuccess ==
    /\ notification.pc = "channels"
    /\ notification.next > Len(notification.channels)
    /\ notification' = [pc |-> "returned", channels |-> notification.channels,
                        result |-> notification.success]
    /\ UNCHANGED <<workerVars, search, server, matcherVars>>

NextNotify ==
    \/ SendNotification
    \/ TryChannel
    \/ ReturnSuccess

SpecNotify == InitNotify /\ [][NextNotify]_vars

----------------------------------------------------------------------------
(* Properties. *)

Started(c) == pc[c] # "idle"

\* The result of each posting of call c, in input order (no iteration raised).
PerPosting(c) ==
    [i \in 1..Len(args[c].job_listings) |->
        LoopBody(args[c].resume_data, args[c].job_listings[i],
                 DefaultPreferences(args[c].preferences)).matched_job]

Perms(n) == {f \in [1..n -> 1..n] : \A i, j \in 1..n : f[i] = f[j] => i = j}

HasPrefix(s, prefix) ==
    Len(s) >= Len(prefix) /\ SubSeq(s, 1, Len(prefix)) = prefix

\* Every result a call holds: appended so far, or returned.
ResultsOf(c) == ToSet(matched_jobs[c]) \cup ToSet(returned[c])

WellFormed(job) == job.title # None /\ job.description # None

\* A profile whose experience descriptions are all str or None.
CleanResume(resume_data) ==
    \A i \in 1..Len(resume_data.experience) :
        ~ExperienceEntryRaises(resume_data.experience[i])

\* work_mode is present with the value None.
WorkModeIsNone(preferences) ==
    /\ preferences # NonePreferences
    /\ "work_mode" \in DOMAIN preferences
    /\ preferences["work_mode"] = None

\* work_mode is absent: the key is missing, or present with the value None.
WorkModeAbsent(preferences) ==
    \/ preferences = NonePreferences
    \/ /\ preferences # NonePreferences
       /\ DictGet(preferences, "work_mode", None) = None

\* C1: every result of match_jobs has a match score s with 0.0 <= s <= 1.0
\* (in hundredths: 0 <= s <= 100).
C1_ScoreInUnitInterval ==
    \A c \in CallIds : \A r \in ResultsOf(c) :
        0 <= r.match_score /\ r.match_score <= 100

\* C1 witness: a returned result attains the upper end, 1.0.
C1_Witness ==
    \E c \in CallIds :
        /\ pc[c] = "returned"
        /\ \E k \in 1..Len(returned[c]) : returned[c][k].match_score = 100

\* C2: ranking is stable: of two postings whose results have equal rounded
\* score, the one earlier in job_listings is earlier in the returned list.
C2_RankingStable ==
    \A c \in CallIds :
        pc[c] = "returned" =>
            \E M \in {PerPosting(c)} :
                \E f \in Perms(Len(M)) :
                    /\ \A k \in 1..Len(M) : returned[c][k] = M[f[k]]
                    /\ \A k, l \in 1..Len(M) :
                           (k < l /\ returned[c][k].match_score
                                        = returned[c][l].match_score)
                               => f[k] < f[l]

\* C2 witness: two different postings tie, and a third, later in the input
\* and scored higher, was moved in front of them.
C2_Witness ==
    \E c \in CallIds :
        /\ pc[c] = "returned"
        /\ Len(returned[c]) = 3
        /\ returned[c][1].job_id = args[c].job_listings[3].job_id
        /\ returned[c][1].match_score > returned[c][2].match_score
        /\ returned[c][2].match_score = returned[c][3].match_score
        /\ returned[c][2].job_id # returned[c][3].job_id

\* C3: the returned list is in descending order of score: each result's score
\* is greater than or equal to its successor's.
C3_Descending ==
    \A c \in CallIds :
        pc[c] = "returned" =>
            \A k \in 1..(Len(returned[c]) - 1) :
                returned[c][k].match_score >= returned[c][k + 1].match_score

\* C3 witness: the input was in ascending order of score and came back
\* descending.
C3_Witness ==
    \E c \in CallIds :
        /\ pc[c] = "returned"
        /\ Len(returned[c]) >= 2
        /\ PerPosting(c)[1].match_score < PerPosting(c)[2].match_score
        /\ returned[c][1].match_score > returned[c][Len(returned[c])].match_score

\* C4: match_jobs emits exactly one result per input posting: while it loops
\* it holds one result per posting processed, and what it returns is a
\* permutation of the per-posting results (empty for an empty input).
C4_OneResultPerPosting ==
    \A c \in CallIds :
        /\ pc[c] = "loop" => Len(matched_jobs[c]) = locals[c].next - 1
        /\ pc[c] = "returned" =>
               \E M \in {PerPosting(c)} :
                   /\ Len(returned[c]) = Len(args[c].job_listings)
                   /\ \E f \in Perms(Len(M)) :
                          \A k \in 1..Len(M) : returned[c][k] = M[f[k]]

\* C4 witness: three postings went in and three results came out, one of
\* them with no match reason at all.
C4_Witness ==
    \E c \in CallIds :
        /\ pc[c] = "returned"
        /\ Len(args[c].job_listings) = 3
        /\ Len(returned[c]) = 3
        /\ \E k \in 1..3 : returned[c][k].match_reasons = << >>

\* C5: with one malformed posting in the batch (title or description absent)
\* match_jobs does not abort: it leaves that posting out and returns the
\* scored results of all the others.
C5_MalformedExcluded ==
    \A c \in CallIds :
        (/\ Started(c)
         /\ CleanResume(args[c].resume_data)
         /\ ~WorkModeIsNone(args[c].preferences)
         /\ \E i \in 1..Len(args[c].job_listings) :
                /\ ~WellFormed(args[c].job_listings[i])
                /\ \A j \in 1..Len(args[c].job_listings) :
                       j # i => WellFormed(args[c].job_listings[j]))
        => /\ pc[c] # "raised"
           /\ pc[c] = "returned" =>
                  /\ Len(returned[c]) = Len(args[c].job_listings) - 1
                  /\ \A k \in 1..Len(returned[c]) :
                         returned[c][k].title # None
                             /\ returned[c][k].description # None

\* C6: when preferences.work_mode is absent (key missing, or present with the
\* value None) match_jobs raises nothing, takes remote_preference to be false
\* and returns a result for every posting.
C6_AbsentWorkModeDegrades ==
    \A c \in CallIds :
        (/\ Started(c)
         /\ CleanResume(args[c].resume_data)
         /\ WorkModeAbsent(args[c].preferences)
         /\ \A i \in 1..Len(args[c].job_listings) :
                WellFormed(args[c].job_listings[i]))
        => /\ pc[c] # "raised"
           /\ "remote_preference" \in DOMAIN locals[c]
                  => ~locals[c].remote_preference
           /\ pc[c] = "returned"
                  => Len(returned[c]) = Len(args[c].job_listings)

\* C7: match_jobs is a pure function of its arguments: under any interleaving
\* of invocations on the shared instance, a call returns (or raises) exactly
\* as it does when run alone, and its arguments are never modified.
C7_PureUnderInterleaving ==
    /\ [](\A c \in CallIds :
            LET alone == MatchJobsAlone(args[c].resume_data,
                                        args[c].job_listings,
                                        args[c].preferences)
            IN  /\ pc[c] = "returned"
                       => ~alone.raised /\ returned[c] = alone.value
                /\ pc[c] = "raised" => alone.raised)
    /\ [][\A c \in CallIds : Started(c) => args'[c] = args[c]]_vars

\* C7 witness: call 1 has returned its result while call 2, given another
\* posting, has been through an iteration of its loop and not yet returned.
C7_Witness ==
    /\ NumCalls >= 2
    /\ pc[1] = "returned"
    /\ Len(returned[1]) = 1
    /\ pc[2] = "loop"
    /\ locals[2].next = 2
    /\ args[1].job_listings # args[2].job_listings

PostingFields == {"job_id", "title", "company", "location", "description",
                  "job_type", "work_mode"}

SameFields(matched_job, job) ==
    \A f \in PostingFields : matched_job[f] = job[f]

\* C8: every result carries its posting's job_id, title, company, location,
\* description, job_type and work_mode unchanged; match_jobs adds match_score
\* and match_reasons to the posting's dict and leaves the posting as it was.
C8_PostingFieldsCopied ==
    \A c \in CallIds :
        /\ "matched_job" \in DOMAIN locals[c] =>
               /\ SameFields(locals[c].matched_job, locals[c].job)
               /\ DOMAIN locals[c].matched_job =
                      DOMAIN locals[c].job \cup {"match_score", "match_reasons"}
               /\ locals[c].job = args[c].job_listings[locals[c].next - 1]
        /\ \A r \in ResultsOf(c) :
               \E i \in 1..Len(args[c].job_listings) :
                   SameFields(r, args[c].job_listings[i])

\* C8 witness: a returned result whose posting has a job type and a work mode
\* that differ.
C8_Witness ==
    \E c \in CallIds :
        /\ pc[c] = "returned"
        /\ \E k \in 1..Len(returned[c]) :
               /\ returned[c][k].job_type # None
               /\ returned[c][k].work_mode # None
               /\ returned[c][k].job_type # returned[c][k].work_mode

\* C9: if profile.skills is empty, then for every posting the skill score is
\* 0.0, the matched list is empty and the result has no skills reason.
C9_NoSkills ==
    \A c \in CallIds :
        (Started(c) /\ args[c].resume_data.skills = << >>) =>
            /\ "skill_score" \in DOMAIN locals[c] =>
                   /\ locals[c].skill_score = Zero
                   /\ locals[c].matching_skills = << >>
            /\ \A r \in ResultsOf(c) :
                   \A k \in 1..Len(r.match_reasons) :
                       ~HasPrefix(r.match_reasons[k], SkillsMatch)

\* C9 witness: a profile without skills was matched against a posting with a
\* description, and the results are back.
C9_Witness ==
    \E c \in CallIds :
        /\ pc[c] = "returned"
        /\ args[c].resume_data.skills = << >>
        /\ Len(returned[c]) >= 1
        /\ locals[c].job.description # << >>
        /\ locals[c].skill_score = Zero

\* C10: if profile.experience is empty, then for every posting the experience
\* score is 0.0, best_title is None and the result has no experience reason.
C10_NoExperience ==
    \A c \in CallIds :
        (Started(c) /\ args[c].resume_data.experience = << >>) =>
            /\ "experience_score" \in DOMAIN locals[c] =>
                   /\ locals[c].experience_score = Zero
                   /\ locals[c].relevant_experience = None
            /\ \A r \in ResultsOf(c) :
                   \A k \in 1..Len(r.match_reasons) :
                       ~HasPrefix(r.match_reasons[k], ExperienceMatch)

\* C10 witness: a profile with skills but no experience was matched, and a
\* result with a skills reason is back.
C10_Witness ==
    \E c \in CallIds :
        /\ pc[c] = "returned"
        /\ args[c].resume_data.experience = << >>
        /\ \E k \in 1..Len(returned[c]) :
               /\ returned[c][k].match_reasons # << >>
               /\ HasPrefix(returned[c][k].match_reasons[1], SkillsMatch)
        /\ locals[c].relevant_experience = None


----------------------------------------------------------------------------
(* Properties of the scorers, under SpecScorers. *)

\* The call of `method` has returned.
Scored(method) == pc[1] = "returned" /\ args[1].method = method

\* The words of a text: its maximal runs of characters that are not spaces.
Words(text) ==
    {SubSeq(text, i, j) : <<i, j>> \in
        {p \in (1..Len(text)) \X (1..Len(text)) :
            /\ p[1] <= p[2]
            /\ \A k \in p[1]..p[2] : ~IsSpace(text[k])
            /\ p[1] = 1 \/ IsSpace(text[p[1] - 1])
            /\ p[2] = Len(text) \/ IsSpace(text[p[2] + 1])}}

\* C11: _text_similarity is symmetric: exchanging its two arguments gives the
\* same value.
C11_Symmetric ==
    Scored("_text_similarity") =>
        returned[1] = text_similarity(args[1].text2, args[1].text1)

\* Two different texts with different numbers of words, some of them shared.
C11_Witness ==
    /\ Scored("_text_similarity")
    /\ Cardinality(Words(args[1].text1)) > Cardinality(Words(args[1].text2))
    /\ Words(args[1].text1) \cap Words(args[1].text2) # {}
    /\ returned[1] = Rat(1, 2)


\* C12: a text with at least one word is fully similar to itself:
\* _text_similarity(a, a) is 1.0.
C12_Reflexive ==
    (/\ Scored("_text_similarity")
     /\ args[1].text1 = args[1].text2
     /\ Words(args[1].text1) # {})
        => returned[1] = One

\* A text of two words, one space between them, compared with itself.
C12_Witness ==
    /\ Scored("_text_similarity")
    /\ args[1].text1 = args[1].text2
    /\ Cardinality(Words(args[1].text1)) = 2
    /\ returned[1] = One


----------------------------------------------------------------------------
(* Properties of match_jobs, under Spec: the aggregation. *)

\* The last iteration of call c went through and built a result.
Emitted(c) == pc[c] # "idle" /\ "matched_job" \in DOMAIN locals[c]

\* 100 * (0.5 * skill + 0.3 * experience + 0.2 * location), the factor
\* scores being those the scorers return for the posting of the last
\* iteration of call c.
WeightedHundredths(c) ==
    LET job == locals[c].job
        skill == calculate_skill_match_score(args[c].resume_data.skills,
                                             job.description)
        exp == calculate_experience_match(args[c].resume_data.experience,
                                          job.title, job.description)
        loc == calculate_location_match(locals[c].location_preference,
                                        job.location, locals[c].remote_preference)
    IN  RAdd(RAdd(RMul(Rat(50, 1), skill.score), RMul(Rat(30, 1), exp.score)),
             RMul(Rat(20, 1), loc.score))

\* C13: the emitted match_score is 0.5 * skill + 0.3 * experience +
\* 0.2 * location rounded to two decimals: it is a whole number of
\* hundredths, at most half a hundredth away from the weighted sum.
C13_WeightedSumRounded ==
    \A c \in CallIds :
        Emitted(c) =>
            LET x == WeightedHundredths(c)
                k == locals[c].matched_job.match_score
            IN  /\ k \in 0..100
                /\ 2 * (k * x.d - x.n) <= x.d
                /\ 2 * (x.n - k * x.d) <= x.d

\* A result whose weighted sum is not a whole number of hundredths and is
\* rounded upwards.
C13_Witness ==
    \E c \in CallIds :
        /\ Emitted(c)
        /\ WeightedHundredths(c).d # 1
        /\ locals[c].matched_job.match_score * WeightedHundredths(c).d
               > WeightedHundredths(c).n


\* The place of a reason in the fixed order: 1 skills, 2 experience,
\* 3 remote or location, 4 job type; 0 for any other string.
ReasonKind(reason) ==
    IF HasPrefix(reason, SkillsMatch) THEN 1
    ELSE IF HasPrefix(reason, ExperienceMatch) THEN 2
    ELSE IF reason = RemoteMatch \/ reason = LocationMatch THEN 3
    ELSE IF HasPrefix(reason, JobTypeMatch) THEN 4
    ELSE 0

\* C14: the reasons of every result come in the order skills, experience,
\* remote or location, job type, each kind at most once, so at most four of
\* them, and none is the empty string.
C14_ReasonsOrdered ==
    \A c \in CallIds : \A result \in ResultsOf(c) :
        LET reasons == result.match_reasons
        IN  /\ Len(reasons) <= 4
            /\ \A i \in 1..Len(reasons) :
                   reasons[i] # << >> /\ ReasonKind(reasons[i]) \in 1..4
            /\ \A i, j \in 1..Len(reasons) :
                   i < j => ReasonKind(reasons[i]) < ReasonKind(reasons[j])

\* A returned result with all four reasons, and one with the job type reason
\* right after the experience reason.
C14_Witness ==
    \E c \in CallIds :
        /\ pc[c] = "returned"
        /\ \E k \in 1..Len(returned[c]) :
               Len(returned[c][k].match_reasons) = 4
        /\ \E k \in 1..Len(returned[c]) :
               LET reasons == returned[c][k].match_reasons
               IN  /\ Len(reasons) = 3
                   /\ ReasonKind(reasons[2]) = 2
                   /\ ReasonKind(reasons[3]) = 4


----------------------------------------------------------------------------
(* Properties of the scorers, under SpecScorers: the location scorer. *)

\* The text has the letters r, e, m, o, t, e in a row, in either case.
MentionsRemote(text) ==
    \E k \in 0..(Len(text) - 6) :
        \A i \in 1..6 : LowerChar(text[k + i]) = Remote[i]

\* C15: when remote work is preferred and the posting's location mentions
\* "remote" in any case, calculate_location_match returns (1.0, True),
\* whether the candidate's location is absent, empty, or a place with or
\* without a word in common with the posting's.
C15_RemoteFirst ==
    (/\ Scored("calculate_location_match")
     /\ args[1].remote_preference
     /\ MentionsRemote(args[1].job_location))
        => returned[1] = [raised |-> FALSE, score |-> One, remote |-> TRUE]

\* Remote work preferred, a posting whose location spells REMOTE in capitals
\* among other words, and a candidate with no location.
C15_Witness ==
    /\ Scored("calculate_location_match")
    /\ args[1].remote_preference
    /\ args[1].job_location = sRemoteUS
    /\ args[1].resume_location = None
    /\ returned[1].remote


----------------------------------------------------------------------------
(* Properties of the scorers, under SpecScorers: the experience scorer. *)

\* The Jaccard coefficient of two sets, 0 when either is empty.
Jaccard(A, B) ==
    IF A = {} \/ B = {} THEN Zero
    ELSE Rat(Cardinality(A \cap B), Cardinality(A \cup B))

\* 0.7 * title similarity + 0.3 * description similarity of entry exp with
\* the posting, on the lowercased words of each.
EntryScore(exp, job_title, job_description) ==
    RAdd(RMul(Rat(7, 10), Jaccard(Words(Lower(exp.title)), Words(Lower(job_title)))),
         RMul(Rat(3, 10), Jaccard(Words(Lower(exp.description.value)),
                                  Words(Lower(job_description)))))

\* calculate_experience_match was called and returned.
ExperienceScored ==
    /\ Scored("calculate_experience_match")
    /\ ~returned[1].raised

\* The score of each entry of the call, in input order.
EntryScores ==
    [i \in 1..Len(args[1].resume_experience) |->
        EntryScore(args[1].resume_experience[i], args[1].job_title,
                   args[1].job_description)]

\* C16 as stated: the best title is None only when the list is empty; for a
\* list that is not empty it is the title of one of the entries, even when
\* every entry scores exactly 0.
C16_TitleUnlessEmpty ==
    ExperienceScored =>
        LET entries == args[1].resume_experience
        IN  entries # << >> =>
                \E i \in 1..Len(entries) : returned[1].experience = entries[i].title

\* C16, amended: the best title is None exactly when the list is empty or
\* every entry scores exactly 0; otherwise it is the title of one of the
\* entries.
C16_TitleUnlessNoMatch ==
    ExperienceScored =>
        LET entries == args[1].resume_experience
        IN  /\ returned[1].experience = None
                <=> \A i \in 1..Len(entries) : EntryScores[i] = Zero
            /\ returned[1].experience # None
                => \E i \in 1..Len(entries) : returned[1].experience = entries[i].title

\* A list of two entries that both score exactly 0: the best title is None.
C16_Witness ==
    /\ ExperienceScored
    /\ Len(args[1].resume_experience) = 2
    /\ \A i \in 1..2 : EntryScores[i] = Zero
    /\ returned[1].experience = None

\* The greatest of the entry scores, 0 for no entries.
MaxEntryScore ==
    IF EntryScores = << >> THEN Zero
    ELSE CHOOSE m \in ToSet(EntryScores) :
             \A i \in 1..Len(EntryScores) : ~RLess(m, EntryScores[i])

\* The first entry, in input order, whose score is the greatest.
FirstBest ==
    CHOOSE i \in 1..Len(EntryScores) :
        /\ EntryScores[i] = MaxEntryScore
        /\ \A j \in 1..(i - 1) : EntryScores[j] # MaxEntryScore

\* C17 as stated: the scorer returns the greatest entry score together with
\* the title of the first entry, in input order, that attains it.
C17_FirstOfMaximum ==
    (ExperienceScored /\ args[1].resume_experience # << >>) =>
        /\ returned[1].score = MaxEntryScore
        /\ returned[1].experience = args[1].resume_experience[FirstBest].title

\* C17, amended: the scorer returns the greatest entry score, 0 for no
\* entries; when that score is positive the title returned is that of the
\* first entry, in input order, that attains it, and a later entry with an
\* equal score does not take its place; when it is 0 the title is None.
C17_FirstOfPositiveMaximum ==
    ExperienceScored =>
        /\ returned[1].score = MaxEntryScore
        /\ returned[1].experience =
               IF MaxEntryScore = Zero THEN None
               ELSE args[1].resume_experience[FirstBest].title

\* Two entries with the same positive score and different titles: the title
\* returned is the first one's.
C17_Witness ==
    /\ ExperienceScored
    /\ Len(args[1].resume_experience) = 2
    /\ EntryScores[1] = EntryScores[2]
    /\ RLess(Zero, EntryScores[1])
    /\ args[1].resume_experience[1].title # args[1].resume_experience[2].title
    /\ returned[1].experience = args[1].resume_experience[1].title


----------------------------------------------------------------------------
(* Properties of match_jobs, under Spec: the experience reason. *)

\* The best title the experience scorer returns for the posting of the last
\* iteration of call c.
BestTitle(c) ==
    calculate_experience_match(args[c].resume_data.experience,
                               locals[c].job.title,
                               locals[c].job.description).experience

\* C18: a result has an experience reason, citing the best title, exactly
\* when the experience scorer's best title is not None; a best title that is
\* the empty string is cited too.
C18_ReasonIffBestTitle ==
    \A c \in CallIds :
        Emitted(c) =>
            LET reasons == locals[c].matched_job.match_reasons
                cited == {i \in 1..Len(reasons) :
                             HasPrefix(reasons[i], ExperienceMatch)}
            IN  /\ cited # {} <=> BestTitle(c) # None
                /\ \A i \in cited : reasons[i] = ExperienceMatch \o BestTitle(c)


----------------------------------------------------------------------------
(* Properties of the scorers, under SpecScorers: the skill scorer. *)

\* calculate_skill_match_score was called and returned.
SkillsScored ==
    /\ Scored("calculate_skill_match_score")
    /\ ~returned[1].raised

\* The places, in resume_skills, of the skills whose lowercased name occurs
\* in the lowercased posting text.
NamedInText ==
    {i \in 1..Len(args[1].resume_skills) :
        Contains(Lower(args[1].resume_skills[i].name),
                 Lower(args[1].job_description))}

\* C19: the matched list is the names, in input order and as written, of
\* exactly the skills whose lowercased name is a substring of the lowercased
\* posting text, whatever their keywords; the score is the length of that
\* list over the number of skills.
C19_MatchedByNameOnly ==
    SkillsScored =>
        LET skills == args[1].resume_skills
            matched == returned[1].matching
        IN  /\ Len(matched) = Cardinality(NamedInText)
            /\ \A i \in NamedInText :
                   matched[Cardinality({j \in NamedInText : j <= i})] = skills[i].name
            /\ returned[1].score.n * Len(skills) = Len(matched) * returned[1].score.d

\* Three skills: the first and the third are named in the text in another
\* case, the second is not named but one of its keywords is.
C19_Witness ==
    /\ SkillsScored
    /\ Len(args[1].resume_skills) = 3
    /\ NamedInText = {1, 3}
    /\ \E k \in 1..Len(args[1].resume_skills[2].keywords) :
           Contains(Lower(args[1].resume_skills[2].keywords[k]),
                    Lower(args[1].job_description))
    /\ ~Contains(args[1].resume_skills[1].name, args[1].job_description)
    /\ returned[1].matching =
           <<args[1].resume_skills[1].name, args[1].resume_skills[3].name>>
    /\ returned[1].score = Rat(2, 3)


----------------------------------------------------------------------------
(* Properties of the scorers, under SpecScorers: the Jaccard coefficient. *)

\* C20: _text_similarity returns 0 when either text has no word, and
\* otherwise |A \cap B| / (|A| + |B| - |A \cap B|) for the sets A and B of
\* the words of the two texts, a repeated word counting once; the value is
\* within [0, 1].
C20_Jaccard ==
    Scored("_text_similarity") =>
        LET A == Words(args[1].text1)
            B == Words(args[1].text2)
        IN  /\ returned[1] =
                   IF A = {} \/ B = {} THEN Zero
                   ELSE Rat(Cardinality(A \cap B),
                            Cardinality(A) + Cardinality(B) - Cardinality(A \cap B))
            /\ ~RLess(returned[1], Zero)
            /\ ~RLess(One, returned[1])

\* A text that repeats its one word, compared with that word alone: the
\* repetition counts once and the similarity is 1.
C20_Witness ==
    /\ Scored("_text_similarity")
    /\ args[1].text1 = <<"a", " ", "a">>
    /\ args[1].text2 = <<"a">>
    /\ returned[1] = One


----------------------------------------------------------------------------
(* Properties of the scorers, under SpecScorers: the location rules. *)

\* The remote rule applies to the call of calculate_location_match.
RemoteRuleApplies ==
    args[1].remote_preference /\ MentionsRemote(args[1].job_location)

\* The candidate's location is absent or empty.
LocationAbsent == args[1].resume_location \in {None, << >>}

\* C21: when the remote rule does not apply and the candidate's location is
\* absent or empty, calculate_location_match returns (0.5, False) whatever
\* the posting's location, a remote one included.
C21_AbsentLocationNeutral ==
    (/\ Scored("calculate_location_match")
     /\ ~RemoteRuleApplies
     /\ LocationAbsent)
        => returned[1] = [raised |-> FALSE, score |-> Rat(1, 2), remote |-> FALSE]

\* An empty candidate location against a remote posting, remote work not
\* preferred.
C21_Witness ==
    /\ Scored("calculate_location_match")
    /\ ~args[1].remote_preference
    /\ MentionsRemote(args[1].job_location)
    /\ args[1].resume_location = << >>
    /\ returned[1].score = Rat(1, 2)

\* The words of a location: lowercased, commas taken out, split at spaces.
LocationWords(location) ==
    Words(SelectSeq(Lower(location), LAMBDA ch : ch # ","))

\* C22: when neither the remote rule nor the absent-location rule applies,
\* calculate_location_match returns (0.8, False) if the two locations have a
\* word in common and (0.2, False) otherwise.
C22_TokenOverlap ==
    (/\ Scored("calculate_location_match")
     /\ ~RemoteRuleApplies
     /\ ~LocationAbsent)
        => returned[1] =
               [raised |-> FALSE,
                score  |-> IF LocationWords(args[1].resume_location)
                                  \cap LocationWords(args[1].job_location) # {}
                           THEN Rat(4, 5) ELSE Rat(1, 5),
                remote |-> FALSE]

\* A candidate location whose one word is followed by a comma in the
\* posting's location, in another case: 0.8.
C22_Witness ==
    /\ Scored("calculate_location_match")
    /\ ~args[1].remote_preference
    /\ args[1].resume_location = <<"l","a">>
    /\ args[1].job_location = sLAUS
    /\ returned[1].score = Rat(4, 5)


----------------------------------------------------------------------------
(* Properties of match_jobs, under Spec: the location and remote reasons. *)

\* What the location scorer returns for the posting of the last iteration of
\* call c.
LocationOf(c) ==
    calculate_location_match(locals[c].location_preference, locals[c].job.location,
                             locals[c].remote_preference)

\* C23: no result has both the remote reason and the location reason: the
\* remote reason is there exactly when is_remote_match is true, the location
\* reason exactly when is_remote_match is false and location_score is over
\* 0.7, that is 0.8.
C23_RemoteOrLocation ==
    \A c \in CallIds :
        Emitted(c) =>
            LET reasons == ToSet(locals[c].matched_job.match_reasons)
                loc == LocationOf(c)
            IN  /\ ~(RemoteMatch \in reasons /\ LocationMatch \in reasons)
                /\ RemoteMatch \in reasons <=> loc.remote
                /\ LocationMatch \in reasons
                       <=> (~loc.remote /\ loc.score = Rat(4, 5))

\* One returned list with the remote reason on one result and the location
\* reason on another.
C23_Witness ==
    \E c \in CallIds :
        /\ pc[c] = "returned"
        /\ \E k \in 1..Len(returned[c]) :
               RemoteMatch \in ToSet(returned[c][k].match_reasons)
        /\ \E k \in 1..Len(returned[c]) :
               LocationMatch \in ToSet(returned[c][k].match_reasons)


----------------------------------------------------------------------------
(* Properties of match_jobs, under Spec: the skills and job type reasons. *)

\* The matched list the skill scorer returns for the posting of the last
\* iteration of call c.
MatchedOf(c) ==
    calculate_skill_match_score(args[c].resume_data.skills,
                                locals[c].job.description).matching

CommaSpace == <<",", " ">>

\* The first three names at most of a list that is not empty, comma-joined.
FirstThreeCited(matched) ==
    IF Len(matched) = 1 THEN matched[1]
    ELSE IF Len(matched) = 2 THEN matched[1] \o CommaSpace \o matched[2]
    ELSE matched[1] \o CommaSpace \o matched[2] \o CommaSpace \o matched[3]

\* C24: when at least one skill matched, the result has exactly one skills
\* reason, citing the first min(3, |matched|) matched names in the order of
\* the candidate's skills, comma-joined; a fourth or later matched skill is
\* not cited.
C24_FirstThreeSkills ==
    \A c \in CallIds :
        (Emitted(c) /\ MatchedOf(c) # << >>) =>
            LET reasons == locals[c].matched_job.match_reasons
                skills == {i \in 1..Len(reasons) : HasPrefix(reasons[i], SkillsMatch)}
            IN  /\ Cardinality(skills) = 1
                /\ \A i \in skills :
                       reasons[i] = SkillsMatch \o FirstThreeCited(MatchedOf(c))

\* Four skills matched, the fourth under another name than the first three.
C24_Witness ==
    \E c \in CallIds :
        /\ Emitted(c)
        /\ Len(MatchedOf(c)) = 4
        /\ \A i \in 1..3 : MatchedOf(c)[i] # MatchedOf(c)[4]
        /\ locals[c].matched_job.match_reasons[1]
               = SkillsMatch \o FirstThreeCited(MatchedOf(c))


\* The preferences without their job_type.
WithoutJobType(preferences) ==
    [key \in DOMAIN preferences \ {"job_type"} |-> preferences[key]]

\* The text has `part` in it, letter case aside.
MentionsInAnyCase(part, text) ==
    \E k \in 0..(Len(text) - Len(part)) :
        \A i \in 1..Len(part) : LowerChar(text[k + i]) = LowerChar(part[i])

\* C25: a job type reason, citing the posting's job type, is in the result
\* exactly when the preferences have a job_type, the posting has one, and
\* the former is within the latter, letter case aside; the score is what it
\* is without any job_type preference.
C25_JobTypeReason ==
    \A c \in CallIds :
        Emitted(c) =>
            LET reasons == locals[c].matched_job.match_reasons
                cited == {i \in 1..Len(reasons) : HasPrefix(reasons[i], JobTypeMatch)}
                preferences == locals[c].preferences
                job == locals[c].job
                wanted == IF "job_type" \in DOMAIN preferences
                          THEN preferences["job_type"] ELSE None
                applies == /\ wanted # None /\ wanted # << >>
                           /\ job.job_type # None /\ job.job_type # << >>
                           /\ MentionsInAnyCase(wanted, job.job_type)
            IN  /\ cited # {} <=> applies
                /\ \A i \in cited : reasons[i] = JobTypeMatch \o job.job_type
                /\ locals[c].matched_job.match_score =
                       LoopBody(args[c].resume_data, job,
                                WithoutJobType(preferences)).matched_job.match_score

\* A preference "full" met by a posting of type "Full", and the reason says
\* "Full".
C25_Witness ==
    \E c \in CallIds :
        /\ Emitted(c)
        /\ "job_type" \in DOMAIN locals[c].preferences
        /\ locals[c].preferences["job_type"] # locals[c].job.job_type
        /\ \E i \in 1..Len(locals[c].matched_job.match_reasons) :
               locals[c].matched_job.match_reasons[i]
                   = JobTypeMatch \o locals[c].job.job_type


----------------------------------------------------------------------------
(* Properties of JobWorker, under SpecWorker. *)

\* C26: at most one thread is inside the _run_scheduler loop at any time,
\* whatever the order of the start() and stop() calls.
C26_OneSchedulerThread == Cardinality(Alive) <= 1


\* The positions of the scheduler's jobs that carry the tag of user_id.
TaggedFor(user_id) == {i \in 1..Len(jobs) : Tag(user_id) \in jobs[i].tags}

\* The schedule_job_search calls made so far for user_id.
CallsFor(user_id) == {i \in 1..Len(schedule_calls) : schedule_calls[i].user_id = user_id}

\* The interval given by the most recent call for user_id.
LatestInterval(user_id) ==
    schedule_calls[CHOOSE i \in CallsFor(user_id) : \A j \in CallsFor(user_id) : j <= i].schedule_interval_hours

\* The jobs of user_id are one daily job and one every-N-hours job, N the
\* interval of the most recent call.
TwoJobsFor(user_id) ==
    /\ Cardinality(TaggedFor(user_id)) = 2
    /\ \E d, h \in TaggedFor(user_id) :
          /\ jobs[d].unit = "days" /\ jobs[d].interval = 1 /\ jobs[d].at_time
          /\ jobs[h].unit = "hours" /\ jobs[h].interval = LatestInterval(user_id)
    /\ \A i \in TaggedFor(user_id) : jobs[i].job_func[2] = user_id

\* The jobs that do not carry the tag of user_id, in scheduler order.
JobsOfOthers(scheduler_jobs, user_id) ==
    SelectSeq(scheduler_jobs, LAMBDA job : Tag(user_id) \notin job.tags)

\* C27: after any sequence of schedule_job_search calls every user scheduled
\* at least once has exactly two tagged jobs, one daily and one every N hours
\* with N from that user's most recent call, and a call for one user leaves
\* the jobs of every other user as they were.
C27_TwoJobsPerUser ==
    /\ [](\A user_id \in UserIds :
            IF CallsFor(user_id) = {} THEN TaggedFor(user_id) = {}
            ELSE TwoJobsFor(user_id))
    /\ [][schedule_calls' # schedule_calls =>
            JobsOfOthers(jobs', schedule_calls'[Len(schedule_calls')].user_id)
              = JobsOfOthers(jobs, schedule_calls'[Len(schedule_calls')].user_id)]_vars

\* A user rescheduled with another interval after a second user was scheduled.
C27_Witness ==
    /\ Len(schedule_calls) = 3
    /\ schedule_calls[1].user_id = schedule_calls[3].user_id
    /\ schedule_calls[2].user_id # schedule_calls[1].user_id
    /\ schedule_calls[1].schedule_interval_hours # schedule_calls[3].schedule_interval_hours
    /\ Len(jobs) = 4
    /\ TwoJobsFor(schedule_calls[3].user_id)


----------------------------------------------------------------------------
(* Properties of process_user_job_search, under SpecSearch. *)

\* The call has returned and match_jobs had ranked the postings found.
SearchRanked == search.pc = "returned" /\ ~search.matched.raised

\* The positions, in match_jobs' ranking, of the scores of at least 0.6.
KeptPositions ==
    {i \in 1..Len(search.matched.value) : search.matched.value[i].match_score >= 60}

\* The k-th of these positions, in ranking order.
KeptAt(k) ==
    CHOOSE i \in KeptPositions : Cardinality({j \in KeptPositions : j <= i}) = k

\* The requests are a store of the matches followed by one notification.
StoredThenNotified(matches) ==
    /\ Len(server) = 2
    /\ server[1].request = "POST job-matches"
    /\ server[1].json.matches = matches
    /\ server[2].request = "POST notifications"
    /\ server[2].json.data.match_count = Len(matches)
    /\ LET top_matches == server[2].json.data.top_matches
       IN  /\ Len(top_matches) <= 5
           /\ Len(top_matches) = (IF Len(matches) < 5 THEN Len(matches) ELSE 5)
           /\ \A k \in 1..Len(top_matches) : top_matches[k] = matches[k]
           /\ \A k \in 1..Len(top_matches), m \in 1..Len(matches) :
                 m > Len(top_matches)
                     => top_matches[k].match_score >= matches[m].match_score

\* C28: process_user_job_search returns exactly the ranked matches of score
\* >= 0.6, in match_jobs' order; it stores and then notifies, the notification
\* carrying at most the 5 highest-scored matches, only when that list is not
\* empty, and no notification is ever sent before the store.
C28_ThresholdThenStoreNotify ==
    /\ \A i \in 1..Len(server) :
          server[i].request = "POST notifications"
              => i = 2 /\ server[1].request = "POST job-matches"
    /\ SearchRanked =>
          /\ ~search.result.raised
          /\ Len(search.result.value) = Cardinality(KeptPositions)
          /\ \A k \in 1..Len(search.result.value) :
                search.result.value[k] = search.matched.value[KeptAt(k)]
          /\ IF KeptPositions = {} THEN server = << >>
             ELSE StoredThenNotified(search.result.value)

\* Seven postings ranked, six of them kept and returned, five in the
\* notification.
C28_Witness ==
    /\ SearchRanked
    /\ Len(search.matched.value) = 7
    /\ Len(search.result.value) = 6
    /\ Len(server) = 2
    /\ Len(server[2].json.data.top_matches) = 5


\* The call ended before the filter: no user data, an exception while the
\* profile was parsed, a search that raised or found nothing, or match_jobs
\* raising.
EndedBeforeFilter == search.pc = "returned" /\ search.matched.raised

\* C29: process_user_job_search never lets an exception out; when it ends
\* before the filter it returns [] and has neither stored nor notified; and
\* whatever the store and the notification requests end with, it returns the
\* list it handed to them.
C29_NeverPropagates ==
    /\ search.pc = "returned" => ~search.result.raised
    /\ EndedBeforeFilter => search.result.value = << >> /\ server = << >>
    /\ search.pc = "returned" /\ server # << >> =>
          /\ search.result.value # << >>
          /\ search.result.value = server[1].json.matches
          /\ search.result.value = search.relevant_matches

\* match_jobs raised on the postings found, and the call returned [].
C29_Witness ==
    /\ EndedBeforeFilter
    /\ search.job_listings # << >>
    /\ search.result = Returns(<< >>)
    /\ server = << >>

\* Both requests failed and the matches were returned all the same.
C29_FailedRequests ==
    /\ search.pc = "returned"
    /\ Len(server) = 2
    /\ server[1].outcome = "exception"
    /\ server[2].outcome = "500"
    /\ search.result.value # << >>


----------------------------------------------------------------------------
(* Properties of NotificationService.send_notification, under SpecNotify. *)

\* The positions in the log of the requests that store a notification.
StoreRequests == {i \in 1..Len(server) : server[i].request = "POST notifications"}

\* The positions in the log of the channels tried.
ChannelsTried == {i \in 1..Len(server) : server[i].request \in {"email", "push"}}

\* C30: without a channel send_notification returns False and stores nothing;
\* with a channel it stores once, before any channel is tried, tries every
\* channel whatever the earlier ones answered, and returns True iff some
\* channel answered True.
C30_StoreOnceTryAll ==
    /\ notification.channels = << >> =>
          /\ server = << >>
          /\ notification.pc = "returned" => notification.result = FALSE
    /\ notification.channels # << >> /\ notification.pc # "idle" =>
          /\ StoreRequests = {1}
          /\ \A i \in ChannelsTried : i > 1
    /\ notification.channels # << >> /\ notification.pc = "returned" =>
          /\ Len(server) = 1 + Len(notification.channels)
          /\ \A k \in 1..Len(notification.channels) :
                server[1 + k].request = notification.channels[k]
          /\ notification.result = (\E i \in ChannelsTried : server[i].channel_success)

\* Email answered True, push was tried all the same and answered False, and
\* the call returned True.
C30_Witness ==
    /\ notification.pc = "returned"
    /\ notification.channels = <<"email", "push">>
    /\ Len(server) = 3
    /\ server[1].request = "POST notifications"
    /\ server[2].channel_success
    /\ ~server[3].channel_success
    /\ notification.result = TRUE

====
